---------------------------- MODULE Spec2Model ----------------------------
(***************************************************************************)
(* A model of the pd1 storage engine core (tsdb/engine/pd1): the range     *)
(* scoped write lock, the engine's file set with its readers, writers,     *)
(* compaction and close, and the data path of a rewrite.                   *)
(*                                                                         *)
(* int64 timestamps are modelled on a small window of the integers:        *)
(* MinInt64 and MaxInt64 are the two ends of the window and every time the *)
(* model uses lies strictly between them.                                  *)
(***************************************************************************)
EXTENDS Integers, Sequences, FiniteSets, TLC

(***************************************************************************)
(* Bounds of the model.                                                    *)
(***************************************************************************)
\* Largest timestamp a caller of LockRange passes (timestamps are 1..MaxTime).
MaxTime == 3

\* math.MinInt64 / math.MaxInt64, the range Close locks (pd1.go:208).
MinInt64 == -100
MaxInt64 == 100

\* The goroutines of the model.
Procs == 1 .. 3

Times == 1 .. MaxTime

\* The ranges a caller may ask for: every [a,b] with a <= b, and the full range.
RangeSet == {r \in Times \X Times : r[1] <= r[2]} \cup {<<MinInt64, MaxInt64>>}

(***************************************************************************)
(* Values (the codec side lives in the package's encoding file, which is   *)
(* not part of the sources at hand: modelled from the specification).      *)
(* A Value is [t |-> timestamp, v |-> payload]; Values is a sequence.      *)
(***************************************************************************)
SetMin(S) == CHOOSE x \in S : \A y \in S : x <= y
SetMax(S) == CHOOSE x \in S : \A y \in S : x >= y

\* Values.MinTime / Values.MaxTime: the first / last element's time.
ValuesMinTime(vs) == vs[1].t
ValuesMaxTime(vs) == vs[Len(vs)].t

TimesOf(vs) == {vs[i].t : i \in 1 .. Len(vs)}

\* The last element of vs with time t.
LastAt(vs, t) == vs[SetMax({i \in 1 .. Len(vs) : vs[i].t = t})]

RECURSIVE SortedByTime(_, _)
SortedByTime(vs, ts) ==
    IF ts = {} THEN <<>>
    ELSE LET t == SetMin(ts)
         IN  <<LastAt(vs, t)>> \o SortedByTime(vs, ts \ {t})

\* Values.Deduplicate: ascending by time, the last occurrence of a time wins.
Deduplicate(vs) == SortedByTime(vs, TimesOf(vs))

(***************************************************************************)
(* Engine.filterDataBetweenTimes (pd1.go:819)                              *)
(***************************************************************************)
\* minIndex / maxIndex of the two search loops, as Go (0-based) indexes.
FilterMinIndex(values, minTime, maxTime) ==
    LET S == {i \in 1 .. Len(values) :
                 values[i].t >= minTime /\ values[i].t < maxTime}
    IN  IF S = {} THEN 0 ELSE SetMin(S) - 1

FilterMaxIndex(values, maxTime) ==
    LET S == {i \in 1 .. Len(values) : values[i].t < maxTime}
    IN  IF S = {} THEN Len(values) ELSE SetMax(S)

\* The id is deleted from the passed-in map.
FilterDeletes(values, minTime, maxTime) ==
    LET mi == FilterMinIndex(values, minTime, maxTime)
        ma == FilterMaxIndex(values, maxTime)
    IN  mi = Len(values) \/ (mi = 0 /\ ma = Len(values))

\* The backing array of values after the call.  valuesByID[id] =
\* values[0:minIndex] keeps the capacity of values, so the append of
\* values[maxIndex:] writes into the same array, from index minIndex on.
FilterArray(values, minTime, maxTime) ==
    LET mi == FilterMinIndex(values, minTime, maxTime)
        ma == FilterMaxIndex(values, maxTime)
        n  == Len(values)
    IN  IF FilterDeletes(values, minTime, maxTime) \/ ma = n THEN values
        ELSE [i \in 1 .. n |->
                 IF i > mi /\ i <= mi + (n - ma) THEN values[ma + (i - mi)]
                 ELSE values[i]]

\* filteredValues[id]: the slice values[minIndex:maxIndex] of that array.
FilterTaken(values, minTime, maxTime) ==
    SubSeq(FilterArray(values, minTime, maxTime),
           FilterMinIndex(values, minTime, maxTime) + 1,
           FilterMaxIndex(values, maxTime))

\* valuesByID[id] after the call (when the id is not deleted).
FilterLeft(values, minTime, maxTime) ==
    LET mi == FilterMinIndex(values, minTime, maxTime)
        ma == FilterMaxIndex(values, maxTime)
    IN  SubSeq(FilterArray(values, minTime, maxTime), 1, mi + (Len(values) - ma))

\* The whole call on a map id -> Values: the returned map and the map left.
filterDataBetweenTimes(valuesByID, minTime, maxTime) ==
    LET ids  == DOMAIN valuesByID
        kept == {id \in ids : ~FilterDeletes(valuesByID[id], minTime, maxTime)}
    IN  [filtered |-> [id \in ids |-> FilterTaken(valuesByID[id], minTime, maxTime)],
         rest     |-> [id \in kept |-> FilterLeft(valuesByID[id], minTime, maxTime)]]

(***************************************************************************)
(* Engine.Write: the split of a batch over the touched files (pd1.go:296). *)
(* fs is the sequence of touched files, each with min, max, size and ref   *)
(* (the file itself); a task is one call of rewriteFile(old, vals), old = 0 *)
(* standing for nil.                                                       *)
(***************************************************************************)
\* Engine.RotateFileSize, a configuration field (5 MiB by default).
RotateFileSize == 120

RECURSIVE WriteLoop(_, _, _, _, _)
WriteLoop(fs, i, valuesByID, maxTime, tasks) ==
    IF i = 0
    THEN Append(tasks, [old |-> 0, vals |-> valuesByID])
    ELSE LET f       == fs[i]
             fileMax == f.max + 1
             fileMin == f.min
         IN  IF f.size < RotateFileSize
             THEN LET r == filterDataBetweenTimes(valuesByID, fileMin, maxTime)
                  IN  WriteLoop(fs, i - 1, r.rest, maxTime,
                                Append(tasks, [old |-> f.ref, vals |-> r.filtered]))
             ELSE LET r1 == filterDataBetweenTimes(valuesByID, fileMax, maxTime)
                      r2 == filterDataBetweenTimes(r1.rest, fileMin, fileMax)
                  IN  WriteLoop(fs, i - 1, r2.rest, fileMin,
                                tasks \o <<[old |-> 0, vals |-> r1.filtered],
                                           [old |-> f.ref, vals |-> r2.filtered]>>)

\* The rewriteFile calls of one Write, in the order they are started.
WriteTasks(fs, valuesByID) ==
    IF Len(fs) = 0
    THEN <<[old |-> 0, vals |-> valuesByID]>>
    ELSE WriteLoop(fs, Len(fs), valuesByID, MaxInt64, <<>>)

\* Engine.filesAndLock: the test that selects a file for [min, max].
FileTouched(f, min, max) ==
    IF min < f.max /\ f.min >= f.min THEN TRUE
    ELSE IF max >= f.min /\ max < f.max THEN TRUE
    ELSE FALSE

\* The start and the end of the range filesAndLock locks for the files a.
LockStart(a, min) == IF Len(a) > 0 THEN a[1].min ELSE min
LockEnd(a, max) ==
    IF Len(a) > 0
    THEN (IF max > a[Len(a)].max THEN max ELSE a[Len(a)].max)
    ELSE max

\* The batch's time range as convertKeysAndWriteMetadata computes it.
BatchMin(valuesByID) == SetMin({ValuesMinTime(valuesByID[id]) : id \in DOMAIN valuesByID})
BatchMax(valuesByID) == SetMax({ValuesMaxTime(valuesByID[id]) : id \in DOMAIN valuesByID})

(***************************************************************************)
(* dataFile (pd1.go:1353).  A file is modelled by its regions:             *)
(*   blocks   the block region, a sequence of [id, len, vals, junk]:       *)
(*            len is the length in bytes of the encoded block, vals what   *)
(*            it decodes to; junk marks bytes that are no encoded block;   *)
(*   index    the sequence of [id, pos] entries;                           *)
(*   minTime, maxTime  the trailer.                                        *)
(* Positions are byte offsets, as in the code.                             *)
(***************************************************************************)
fileHeaderSize == 4
blockHeaderSize == 12
seriesHeaderSize == 12
trailerSize == 20

\* Bytes one value takes in an encoded block (the codec is not part of the
\* sources at hand; the first 8 bytes of a block are its first timestamp).
ValueSize == 16

\* Values.Encode: the block a sequence of values encodes to.
Encode(id, vals) ==
    [id |-> id, len |-> ValueSize * Len(vals), vals |-> vals, junk |-> FALSE]

RECURSIVE BlockStart(_, _)
\* The offset of the k-th block (k = Len(blocks) + 1: the end of the region).
BlockStart(blocks, k) ==
    IF k = 1 THEN fileHeaderSize
    ELSE BlockStart(blocks, k - 1) + blockHeaderSize + blocks[k - 1].len

\* dataFile.indexPosition and dataFile.size.
indexPosition(f) == BlockStart(f.blocks, Len(f.blocks) + 1)
FileSize(f) == indexPosition(f) + seriesHeaderSize * Len(f.index) + trailerSize

\* The number of the block that starts at pos, 0 when none does.
BlockIdx(f, pos) ==
    LET S == {k \in 1 .. Len(f.blocks) : BlockStart(f.blocks, k) = pos}
    IN  IF S = {} THEN 0 ELSE CHOOSE k \in S : TRUE

\* An id no series has: what a read of bytes that are no id yields.
GarbageID == -1

\* dataFile.block(pos): the zero values at or after the index; before it
\* the block that starts at pos (k is its number), or garbage when pos is
\* not the start of a block.
block(f, pos) ==
    IF pos < indexPosition(f)
    THEN LET k == BlockIdx(f, pos)
         IN  IF k = 0
             THEN [id |-> GarbageID, t |-> 0, len |-> 0, k |-> 0]
             ELSE [id  |-> f.blocks[k].id,
                   t   |-> IF f.blocks[k].junk \/ f.blocks[k].vals = <<>>
                           THEN 0 ELSE f.blocks[k].vals[1].t,
                   len |-> f.blocks[k].len,
                   k   |-> k]
    ELSE [id |-> 0, t |-> 0, len |-> 0, k |-> 0]

\* dataFile.IDToPosition: the index as a map.
IDToPosition(f) ==
    [id \in {f.index[i].id : i \in 1 .. Len(f.index)} |->
        f.index[SetMax({i \in 1 .. Len(f.index) : f.index[i].id = id})].pos]

\* btou64(mmap[pos : pos+8]) read as an id: a block's id, an index entry's
\* id, or bytes that are no id.
RawID(f, pos) ==
    IF BlockIdx(f, pos) # 0 THEN f.blocks[BlockIdx(f, pos)].id
    ELSE LET j == (pos - indexPosition(f)) \div seriesHeaderSize
         IN  IF /\ pos >= indexPosition(f)
                /\ (pos - indexPosition(f)) % seriesHeaderSize = 0
                /\ j < Len(f.index)
             THEN f.index[j + 1].id
             ELSE GarbageID

\* btou32(mmap[pos+8 : pos+12]) read as a length: a block's length or, on an
\* index entry, the entry's position field.
RawLen(f, pos) ==
    IF BlockIdx(f, pos) # 0 THEN f.blocks[BlockIdx(f, pos)].len
    ELSE f.index[((pos - indexPosition(f)) \div seriesHeaderSize) + 1].pos

\* mmap[pos : pos+12+length] copied as it is: a block, or an index entry
\* and the bytes after it taken for a block.
RawBlock(f, pos) ==
    IF BlockIdx(f, pos) # 0 THEN f.blocks[BlockIdx(f, pos)]
    ELSE [id |-> RawID(f, pos), len |-> RawLen(f, pos), vals |-> <<>>, junk |-> TRUE]

(***************************************************************************)
(* Engine.DecodeAndCombine (pd1.go:1324)                                   *)
(***************************************************************************)
\* DefaultMaxPointsPerBlock (1000 in the code), scaled down.
DefaultMaxPointsPerBlock == 2

RECURSIVE SortSearch(_, _, _, _)
\* sort.Search(len(newValues), func(i) newValues[i].Time() >= nextTime),
\* the binary search on Go (0-based) indexes i <= j.
SortSearch(i, j, newValues, nextTime) ==
    IF i < j
    THEN LET h == i + ((j - i) \div 2)
         IN  IF ~(newValues[h + 1].t >= nextTime)
             THEN SortSearch(h + 1, j, newValues, nextTime)
             ELSE SortSearch(i, h, newValues, nextTime)
    ELSE i

\* Cut values to DefaultMaxPointsPerBlock: what is cut off replaces
\* remainingValues.
CombineSplit(values, remainingValues) ==
    IF Len(values) > DefaultMaxPointsPerBlock
    THEN [panic |-> FALSE,
          rest  |-> SubSeq(values, DefaultMaxPointsPerBlock + 1, Len(values)),
          vals  |-> SubSeq(values, 1, DefaultMaxPointsPerBlock)]
    ELSE [panic |-> FALSE, rest |-> remainingValues, vals |-> values]

\* The merge that never sorts when no block of the id follows.
DecodeAndCombineNoSort(newValues, blk, nextTime, hasFutureBlock) ==
    IF blk.junk THEN [panic |-> TRUE, rest |-> <<>>, vals |-> <<>>]
    ELSE IF hasFutureBlock
    THEN LET pos == SortSearch(0, Len(newValues), newValues, nextTime)
         IN  CombineSplit(Deduplicate(blk.vals \o SubSeq(newValues, 1, pos)),
                          SubSeq(newValues, pos + 1, Len(newValues)))
    ELSE IF Len(newValues) = 0 THEN [panic |-> TRUE, rest |-> <<>>, vals |-> <<>>]
    ELSE CombineSplit(blk.vals \o newValues, <<>>)

\* Returns the values left over (rest) and the values of the block to
\* write (vals).  It panics when the block does not decode, and in
\* newValues.MinTime() when newValues is empty and no block follows.
DecodeAndCombine(newValues, blk, nextTime, hasFutureBlock) ==
    IF blk.junk THEN [panic |-> TRUE, rest |-> <<>>, vals |-> <<>>]
    ELSE IF hasFutureBlock
    THEN LET pos == SortSearch(0, Len(newValues), newValues, nextTime)
         IN  CombineSplit(Deduplicate(blk.vals \o SubSeq(newValues, 1, pos)),
                          SubSeq(newValues, pos + 1, Len(newValues)))
    ELSE IF Len(newValues) = 0 THEN [panic |-> TRUE, rest |-> <<>>, vals |-> <<>>]
    ELSE LET requireSort == ValuesMaxTime(blk.vals) >= ValuesMinTime(newValues)
         IN  CombineSplit(IF requireSort THEN Deduplicate(blk.vals \o newValues)
                          ELSE blk.vals \o newValues, <<>>)

(***************************************************************************)
(* Engine.rewriteFile (pd1.go:860)                                         *)
(***************************************************************************)
\* The old file of rewriteFile(nil, ...): no block, no index entry, and the
\* times minTime and maxTime start from.
NilFile == [blocks |-> <<>>, index |-> <<>>, minTime |-> MaxInt64, maxTime |-> MinInt64]

RECURSIVE DescendingSeq(_)
\* The ids from the largest to the smallest.
DescendingSeq(S) ==
    IF S = {} THEN <<>> ELSE <<SetMax(S)>> \o DescendingSeq(S \ {SetMax(S)})

RECURSIVE SortedSeq(_)
\* sort.Sort(uint64slice(ids))
SortedSeq(S) ==
    IF S = {} THEN <<>> ELSE <<SetMin(S)>> \o SortedSeq(S \ {SetMin(S)})

RECURSIVE RewriteTimes(_, _, _, _)
\* minTime and maxTime of the new file: the loop over valuesByID, which
\* visits the ids in the order `order` (Go does not fix a map's order).
RewriteTimes(valuesByID, order, minTime, maxTime) ==
    IF order = <<>> THEN [min |-> minTime, max |-> maxTime]
    ELSE LET v == valuesByID[Head(order)]
         IN  RewriteTimes(valuesByID, Tail(order),
                 IF minTime > ValuesMinTime(v) THEN ValuesMinTime(v) ELSE minTime,
                 IF maxTime < ValuesMaxTime(v) THEN ValuesMaxTime(v) + 1 ELSE maxTime)

RECURSIVE CopyLoop(_, _, _, _)
\* An id that is only in the old file: its bytes are copied block by block
\* until the id read at fpos differs or fpos reaches the file's size.
CopyLoop(oldDF, id, fpos, out) ==
    IF RawID(oldDF, fpos) # id THEN out
    ELSE LET length == RawLen(oldDF, fpos)
             out2   == Append(out, RawBlock(oldDF, fpos))
         IN  IF fpos + 12 + length >= FileSize(oldDF) THEN out2
             ELSE CopyLoop(oldDF, id, fpos + 12 + length, out2)

\* After the old blocks: the new values still left go into one block.
MergeFinish(id, out, newVals) ==
    [panic  |-> FALSE,
     blocks |-> IF Len(newVals) > 0 THEN Append(out, Encode(id, newVals)) ELSE out]

RECURSIVE MergeLoop(_, _, _, _, _)
\* An id in the old file and in the new values.
MergeLoop(oldDF, id, fpos, newVals, out) ==
    LET b == block(oldDF, fpos)
    IN  IF b.id # id THEN MergeFinish(id, out, newVals)
        ELSE LET fpos2 == fpos + blockHeaderSize + b.len
                 nb    == block(oldDF, fpos2)
                 r     == DecodeAndCombine(newVals, oldDF.blocks[b.k], nb.t, nb.id = id)
             IN  IF r.panic THEN [panic |-> TRUE, blocks |-> out]
                 ELSE IF fpos2 >= indexPosition(oldDF)
                      THEN MergeFinish(id, Append(out, Encode(id, r.vals)), r.rest)
                      ELSE MergeLoop(oldDF, id, fpos2, r.rest,
                                     Append(out, Encode(id, r.vals)))

\* The blocks written for one id.
RewriteID(oldDF, valuesByID, id) ==
    IF id \notin DOMAIN valuesByID
    THEN [panic |-> FALSE, blocks |-> CopyLoop(oldDF, id, IDToPosition(oldDF)[id], <<>>)]
    ELSE IF id \notin DOMAIN IDToPosition(oldDF)
    THEN [panic |-> FALSE, blocks |-> <<Encode(id, valuesByID[id])>>]
    ELSE MergeLoop(oldDF, id, IDToPosition(oldDF)[id], valuesByID[id], <<>>)

RECURSIVE RewriteIDs(_, _, _, _)
\* The loop over the sorted ids: acc is [panic, blocks, index].
RewriteIDs(oldDF, valuesByID, ids, acc) ==
    IF ids = <<>> \/ acc.panic THEN acc
    ELSE LET r == RewriteID(oldDF, valuesByID, Head(ids))
         IN  RewriteIDs(oldDF, valuesByID, Tail(ids),
                 [panic  |-> r.panic,
                  blocks |-> acc.blocks \o r.blocks,
                  index  |-> Append(acc.index,
                                [id  |-> Head(ids),
                                 pos |-> BlockStart(acc.blocks, Len(acc.blocks) + 1)])])

\* The file rewriteFile(oldDF, valuesByID) produces (valuesByID not empty),
\* or a panic.
rewriteFile(oldDF, valuesByID, order) ==
    LET ids == SortedSeq(DOMAIN valuesByID \cup DOMAIN IDToPosition(oldDF))
        tm  == RewriteTimes(valuesByID, order, oldDF.minTime, oldDF.maxTime)
        r   == RewriteIDs(oldDF, valuesByID, ids,
                          [panic |-> FALSE, blocks |-> <<>>, index |-> <<>>])
    IN  [panic |-> r.panic,
         file  |-> [blocks |-> r.blocks, index |-> r.index,
                    minTime |-> tm.min, maxTime |-> tm.max]]

(***************************************************************************)
(* Engine.Compact, the merge of the candidate files (pd1.go:464-566).      *)
(* The state of the loops is a record c:                                   *)
(*   ids, positions   the two slices, one entry per file;                  *)
(*   out              the blocks written so far;                           *)
(*   newIDs, newPositions   the index being collected;                     *)
(*   panic            a panic (or a slice out of range);                   *)
(*   undef            bytes that are no block were taken for one: what the *)
(*                    code does from there on depends on those bytes.      *)
(***************************************************************************)
\* DefaultRotateBlockSize (512 KiB in the code), scaled with the blocks.
DefaultRotateBlockSize == 1024

\* A block as the byte slice df.block returns it (nil past the blocks).
BlockBytes(f, b) ==
    IF b.k = 0 THEN [id |-> 0, len |-> 0, vals |-> <<>>, junk |-> b.id # 0]
    ELSE f.blocks[b.k]

\* The blocks of f that lie in mmap[pos : newPos], when both ends are block
\* boundaries.
RawRange(f, pos, newPos) ==
    SelectSeq([k \in 1 .. Len(f.blocks) |->
                   [blk |-> f.blocks[k], at |-> BlockStart(f.blocks, k)]],
              LAMBDA x : x.at >= pos /\ x.at < newPos)

IsBoundary(f, pos) == BlockIdx(f, pos) # 0 \/ pos = indexPosition(f)

RECURSIVE BlocksOf(_)
BlocksOf(xs) == IF xs = <<>> THEN <<>> ELSE <<Head(xs).blk>> \o BlocksOf(Tail(xs))

\* The current block is appended to previousValues, copied as it is (over
\* DefaultRotateBlockSize), or becomes previousValues.
CompactTake(c, df, pos, blk, newPos) ==
    IF Len(c.prev) > 0
    THEN [c EXCEPT !.prev = c.prev \o blk.vals, !.undef = blk.junk]
    ELSE IF blk.len > DefaultRotateBlockSize
    THEN IF newPos > FileSize(df)
         THEN [c EXCEPT !.panic = TRUE]
         ELSE [c EXCEPT !.out = c.out \o BlocksOf(RawRange(df, pos, newPos)),
                        !.undef = ~IsBoundary(df, newPos)]
    ELSE [c EXCEPT !.prev = blk.vals, !.undef = blk.junk]

\* "write the previous values and clear if we've hit the limit"
CompactFlush(c, id, limit) ==
    IF Len(c.prev) > limit
    THEN [c EXCEPT !.out = Append(c.out, Encode(id, c.prev)), !.prev = <<>>]
    ELSE c

RECURSIVE CompactBlocks(_, _, _, _, _, _, _)
RECURSIVE CompactAdvance(_, _, _, _, _, _, _)
\* The inner loop over the blocks of one id in file i: blk is the current
\* block and newPos the running position; c.prev is previousValues.
CompactBlocks(c, df, i, id, pos, blk, newPos) ==
    IF block(df, newPos).id = GarbageID THEN [c EXCEPT !.undef = TRUE]
    ELSE CompactAdvance(
             CompactFlush(CompactTake(c, df, pos, blk, newPos + blockHeaderSize + blk.len),
                          id, DefaultMaxPointsPerBlock),
             df, i, id, pos, block(df, newPos), newPos + blockHeaderSize + blk.len)

\* The end of a round of the inner loop: nb is what was read at the next
\* position.
CompactAdvance(c, df, i, id, pos, nb, newPos) ==
    IF c.panic \/ c.undef THEN c
    ELSE IF nb.id # id THEN [c EXCEPT !.ids[i] = nb.id]
    ELSE CompactBlocks([c EXCEPT !.positions[i] = newPos], df, i, id, pos,
                       BlockBytes(df, nb), newPos + blockHeaderSize + nb.len)

\* The start of the work on file i: b is the block at positions[i].
CompactFile(c, df, i, minID, pos, b) ==
    IF b.id = GarbageID THEN [c EXCEPT !.undef = TRUE]
    ELSE IF b.id # minID THEN [c EXCEPT !.panic = TRUE]
    ELSE CompactBlocks([c EXCEPT !.positions[i] = pos + blockHeaderSize + b.len],
                       df, i, minID, pos, BlockBytes(df, b),
                       pos + blockHeaderSize + b.len)

RECURSIVE CompactFiles(_, _, _, _)
\* The loop over the files for the id minID.
CompactFiles(c, files, i, minID) ==
    IF i > Len(files) \/ c.panic \/ c.undef THEN c
    ELSE IF c.ids[i] # minID THEN CompactFiles(c, files, i + 1, minID)
    ELSE CompactFiles(CompactFile(c, files[i], i, minID, c.positions[i],
                                  block(files[i], c.positions[i])),
                      files, i + 1, minID)

\* The smallest of ids, starting from math.MaxUint64.
CompactMinID(ids) == SetMin({ids[i] : i \in 1 .. Len(ids)})

\* The new index entry for minID.
CompactStart(c, minID) ==
    [c EXCEPT !.newIDs = Append(c.newIDs, minID),
              !.newPositions = Append(c.newPositions, BlockStart(c.out, Len(c.out) + 1)),
              !.prev = <<>>]

\* After the files: what is left of previousValues is written as a block.
CompactRest(c, minID) ==
    IF c.panic \/ c.undef THEN c ELSE CompactFlush(c, minID, 0)

RECURSIVE CompactLoop(_, _)
\* The outer loop: one round per id, until the smallest id is 0.
CompactLoop(c, files) ==
    IF c.panic \/ c.undef \/ CompactMinID(c.ids) = 0 THEN c
    ELSE CompactLoop(
             CompactRest(CompactFiles(CompactStart(c, CompactMinID(c.ids)),
                                      files, 1, CompactMinID(c.ids)),
                         CompactMinID(c.ids)),
             files)

\* The file a compaction of `files` (two or more) writes.
CompactMerge(files) ==
    LET c == CompactLoop(
                 [ids          |-> [i \in 1 .. Len(files) |-> RawID(files[i], fileHeaderSize)],
                  positions    |-> [i \in 1 .. Len(files) |-> fileHeaderSize],
                  out          |-> <<>>,
                  newIDs       |-> <<>>,
                  newPositions |-> <<>>,
                  prev         |-> <<>>,
                  panic        |-> FALSE,
                  undef        |-> FALSE], files)
    IN  [panic |-> c.panic, undef |-> c.undef,
         file  |-> [blocks  |-> c.out,
                    index   |-> [k \in 1 .. Len(c.newIDs) |->
                                    [id |-> c.newIDs[k], pos |-> c.newPositions[k]]],
                    minTime |-> files[1].minTime,
                    maxTime |-> files[Len(files)].maxTime]]

(***************************************************************************)
(* cursor (pd1.go:1499).  A cursor is a record c:                          *)
(*   id        the series id;                                              *)
(*   f         the file c.f points to, as its number in files (0: nil);    *)
(*   filesPos  the index into files, counted from 0 as in the code;        *)
(*   pos       the offset after the block decoded last;                    *)
(*   vals      the values decoded and not yet returned.                    *)
(* A call returns [kind, t, v, c]: kind is "val" (t, v returned), "eof",   *)
(* "undef" (bytes that are no block were decoded: what DecodeBlock and the *)
(* read of c.vals[0] do depends on those bytes) or "hang" (the call does   *)
(* not return); c is the cursor after the call.                            *)
(***************************************************************************)
newCursor(id) == [id |-> id, f |-> 0, filesPos |-> 0, pos |-> 0, vals |-> <<>>]

RECURSIVE StartSearch(_, _, _, _)
\* The binary search of StartingPositionForID over the index entries
\* min .. max-1 (counted from 0).
StartSearch(f, id, min, max) ==
    IF min < max
    THEN LET mid     == ((max - min) \div 2) + min
             checkID == f.index[mid + 1].id
         IN  IF checkID = id THEN f.index[mid + 1].pos
             ELSE IF checkID < id THEN StartSearch(f, id, mid + 1, max)
             ELSE StartSearch(f, id, min, mid)
    ELSE 0

\* dataFile.StartingPositionForID
StartingPositionForID(f, id) == StartSearch(f, id, 0, Len(f.index))

\* btou64(mmap[pos+12 : pos+20]) read as a time: a block's first timestamp;
\* on an index entry the id of the next entry or, on the last entry, the
\* trailer's minTime.
RawTime(f, pos) ==
    IF BlockIdx(f, pos) # 0
    THEN LET b == f.blocks[BlockIdx(f, pos)]
         IN  IF b.junk \/ b.vals = <<>> THEN 0 ELSE b.vals[1].t
    ELSE LET j == (pos - indexPosition(f)) \div seriesHeaderSize
         IN  IF j + 1 < Len(f.index) THEN f.index[j + 2].id ELSE f.minTime

CursorResult(kind, t, v, c) == [kind |-> kind, t |-> t, v |-> v, c |-> c]

\* cursor.decodeBlockAndGetValues on the file f.
decodeBlockAndGetValues(f, c, position) ==
    LET k == BlockIdx(f, position)
    IN  IF k = 0 THEN CursorResult("undef", 0, 0, c)
        ELSE IF f.blocks[k].junk \/ f.blocks[k].vals = <<>>
        THEN CursorResult("undef", 0, 0, c)
        ELSE CursorResult("val", f.blocks[k].vals[1].t, f.blocks[k].vals[1].v,
                 [c EXCEPT !.vals = Tail(f.blocks[k].vals),
                           !.pos  = position + 12 + f.blocks[k].len])

RECURSIVE SeekSkip(_, _, _, _)
\* SeekTo's inner loop up to the block it decodes: a block is skipped when
\* the bytes after it read as the same id and a time <= seek.
SeekSkip(f, id, pos, seek) ==
    LET nextBlockPos == pos + 12 + RawLen(f, pos)
    IN  IF /\ nextBlockPos < FileSize(f)
           /\ RawID(f, nextBlockPos) = id
           /\ RawTime(f, nextBlockPos) <= seek
        THEN SeekSkip(f, id, nextBlockPos, seek)
        ELSE pos

\* The rest of the inner loop: the block is decoded and scanned; "break"
\* when none of its values is at or after seek.
SeekBlock(f, c, pos, seek) ==
    LET d == decodeBlockAndGetValues(f, c, SeekSkip(f, c.id, pos, seek))
        S == {i \in 1 .. Len(d.c.vals) : d.c.vals[i].t >= seek}
    IN  IF d.kind = "undef" THEN d
        ELSE IF d.t >= seek THEN d
        ELSE IF S # {}
        THEN CursorResult("val", d.c.vals[SetMin(S)].t, d.c.vals[SetMin(S)].v,
                 [d.c EXCEPT !.vals = SubSeq(d.c.vals, SetMin(S) + 1, Len(d.c.vals))])
        ELSE CursorResult("break", 0, 0, d.c)

RECURSIVE SeekLoop(_, _, _)
\* SeekTo's outer loop.  After a break the loop starts over with the same
\* c.f and c.id, and finds the same block again: it does not end.
SeekLoop(files, c, seek) ==
    LET pos == StartingPositionForID(files[c.f], c.id)
    IN  IF pos = 0
        THEN IF c.filesPos + 1 >= Len(files)
             THEN CursorResult("eof", 0, 0, [c EXCEPT !.filesPos = @ + 1])
             ELSE SeekLoop(files, [c EXCEPT !.filesPos = @ + 1, !.f = c.filesPos + 2], seek)
        ELSE LET r == SeekBlock(files[c.f], c, pos, seek)
             IN  IF r.kind = "break" THEN CursorResult("hang", 0, 0, r.c) ELSE r

\* The file SeekTo starts from: c is left as it is when seek lies in no
\* file's [MinTime, MaxTime] and not before the first file.
SeekFile(files, c, seek) ==
    LET S == {i \in 1 .. Len(files) :
                 seek >= files[i].minTime /\ seek <= files[i].maxTime}
    IN  IF seek < files[1].minTime THEN [c EXCEPT !.filesPos = 0, !.f = 1]
        ELSE IF S # {} THEN [c EXCEPT !.filesPos = SetMin(S) - 1, !.f = SetMin(S)]
        ELSE c

\* cursor.SeekTo
SeekTo(files, c, seek) ==
    IF Len(files) = 0 THEN CursorResult("eof", 0, 0, c)
    ELSE IF SeekFile(files, c, seek).f = 0
    THEN CursorResult("eof", 0, 0, SeekFile(files, c, seek))
    ELSE SeekLoop(files, SeekFile(files, c, seek), seek)

RECURSIVE NextFile(_, _)
\* cursor.Next: the loop over the files from c.filesPos on.
NextFile(files, c) ==
    IF c.filesPos < Len(files)
    THEN LET startingPos == StartingPositionForID(files[c.filesPos + 1], c.id)
         IN  IF startingPos = 0
             THEN NextFile(files, [c EXCEPT !.filesPos = @ + 1])
             ELSE decodeBlockAndGetValues(files[c.filesPos + 1],
                      [c EXCEPT !.f = c.filesPos + 1], startingPos)
    ELSE CursorResult("eof", 0, 0, c)

\* The test without the comparison of c.pos with the index position.
NextInFileUnchecked(files, c) ==
    /\ c.f # 0
    /\ c.pos < FileSize(files[c.f])
    /\ RawID(files[c.f], c.pos) = c.id

\* cursor.Next: the next block of the current file is for this id.
NextInFile(files, c) ==
    /\ c.f # 0
    /\ c.pos < FileSize(files[c.f])
    /\ RawID(files[c.f], c.pos) = c.id
    /\ c.pos # indexPosition(files[c.f])

\* cursor.Next
CursorNext(files, c) ==
    IF Len(c.vals) = 0
    THEN IF NextInFile(files, c)
         THEN decodeBlockAndGetValues(files[c.f], c, c.pos)
         ELSE NextFile(files, IF c.f # 0 THEN [c EXCEPT !.filesPos = @ + 1] ELSE c)
    ELSE CursorResult("val", c.vals[1].t, c.vals[1].v, [c EXCEPT !.vals = Tail(c.vals)])

VARIABLES
    wmu,        \* writeLock.mu: the goroutine inside LockRange, 0 when free
    ranges,     \* writeLock.ranges: sequence of rangeLock objects [min, max, rid]
    rlocked,    \* the rangeLock objects whose own mu is locked (by rid)
    lk,         \* per goroutine: its position inside LockRange and its locals
    dfiles,     \* Engine.files with the content of each file (data path)
    currentFileID,  \* Engine.currentFileID
    dstatus,    \* "ok", "panic" (the process died) or "undef" (see Compact)
    written,    \* history: (id, t) -> number of the last Write that stored it
    nwrites,    \* history: number of Writes that returned
    compacted,  \* history: input content and output file of the last Compact
    pc,         \* per goroutine of the engine: its position
    loc,        \* per goroutine of the engine: its locals
    objs,       \* the dataFile objects ever made, by name: file, mmap, f, mu
    metaLock,   \* Engine.metaLock: its holder, 0 when free
    queryLock,  \* Engine.queryLock: [w |-> writer or 0, r |-> set of readers]
    filesLock,  \* Engine.filesLock: the holder across steps (Close), 0 when free
    nswaps,     \* history: number of changes of Engine.files
    rewrites,   \* history: the pairs [old, new] of the rewrites that swapped
    closed,     \* history: Close has returned
    lateOK,     \* history: an operation invoked after Close returned succeeded
    cur,        \* a cursor over dfiles, with the history of the calls made on it
    call,       \* one call of a function of the engine: its arguments and result
    namers,     \* the goroutines inside nextFileName and the names handed out
    meta        \* the ids file, Engine.collisions and Engine.HashSeriesField

lockVars == <<wmu, ranges, rlocked, lk>>

dataVars == <<dfiles, currentFileID, dstatus, written, nwrites, compacted, cur, call, namers, meta>>

engVars == <<pc, loc, objs, metaLock, queryLock, filesLock, nswaps, rewrites,
             closed, lateOK>>

vars == <<wmu, ranges, rlocked, lk,
          dfiles, currentFileID, dstatus, written, nwrites, compacted,
          pc, loc, objs, metaLock, queryLock, filesLock, nswaps, rewrites,
          closed, lateOK, cur, call, namers, meta>>

(***************************************************************************)
(* writeLock (src/unnamed/part_000)                                        *)
(***************************************************************************)

\* The test with receiver and argument exchanged.
overlapsSwapped(r, l) ==
    IF r.min >= l.min /\ r.min <= l.max THEN TRUE
    ELSE IF r.max >= l.min /\ r.max <= l.max THEN TRUE
    ELSE FALSE

\* rangeLock.overlaps: receiver r, argument l.
overlaps(r, l) ==
    IF l.min >= r.min /\ l.min <= r.max THEN TRUE
    ELSE IF l.max >= r.min /\ l.max <= r.max THEN TRUE
    ELSE FALSE

LkIdle == [ph |-> "idle", min |-> 0, max |-> 0, snap |-> <<>>, i |-> 0]

\* No range is held and no goroutine is inside LockRange.
LockIdle ==
    /\ wmu = 0
    /\ ranges = <<>>
    /\ rlocked = {}
    /\ lk = [p \in Procs |-> LkIdle]

\* A goroutine calls LockRange(mn, mx) and reaches w.mu.Lock().
LockCall(p, mn, mx) ==
    /\ lk[p].ph = "idle"
    /\ lk' = [lk EXCEPT ![p] = [ph |-> "mu", min |-> mn, max |-> mx,
                                snap |-> <<>>, i |-> 0]]
    /\ UNCHANGED <<wmu, ranges, rlocked>>

\* w.mu.Lock() returns.
LockAcquireMu(p) ==
    /\ lk[p].ph = "mu"
    /\ wmu = 0
    /\ wmu' = p
    /\ lk' = [lk EXCEPT ![p].ph = "snap"]
    /\ UNCHANGED <<ranges, rlocked>>

\* ranges := w.currentlyLockedRanges(): a copy of the slice of pointers.
currentlyLockedRanges(p) ==
    /\ lk[p].ph = "snap"
    /\ lk' = [lk EXCEPT ![p].ph = "wait", ![p].snap = ranges, ![p].i = 1]
    /\ UNCHANGED <<wmu, ranges, rlocked>>

\* One iteration of the loop over the snapshot whose range does not overlap.
LockSkip(p) ==
    /\ lk[p].ph = "wait"
    /\ lk[p].i <= Len(lk[p].snap)
    /\ ~overlaps(lk[p].snap[lk[p].i], lk[p])
    /\ lk' = [lk EXCEPT ![p].i = @ + 1]
    /\ UNCHANGED <<wmu, ranges, rlocked>>

\* One iteration whose range overlaps: rr.mu.Lock() blocks until the holder
\* has unlocked rr.mu, and rr.mu.Unlock() follows at once.  No other
\* goroutine can touch rr.mu in between: its holder has released it and
\* every other acquirer is kept out by w.mu.
LockWaitOverlap(p) ==
    /\ lk[p].ph = "wait"
    /\ lk[p].i <= Len(lk[p].snap)
    /\ overlaps(lk[p].snap[lk[p].i], lk[p])
    /\ lk[p].snap[lk[p].i].rid \notin rlocked
    /\ lk' = [lk EXCEPT ![p].i = @ + 1]
    /\ UNCHANGED <<wmu, ranges, rlocked>>

\* r.mu.Lock() on the fresh rangeLock, then the append under rangesLock.
\* The object is identified by the goroutine that created it: a goroutine
\* holds at most one range at a time.
LockAdd(p) ==
    /\ lk[p].ph = "wait"
    /\ lk[p].i > Len(lk[p].snap)
    /\ ranges' = Append(ranges, [min |-> lk[p].min, max |-> lk[p].max, rid |-> p])
    /\ rlocked' = rlocked \cup {p}
    /\ lk' = [lk EXCEPT ![p].ph = "ret", ![p].snap = <<>>, ![p].i = 0]
    /\ UNCHANGED wmu

\* The deferred w.mu.Unlock(); LockRange returns and the range is held.
LockReturn(p) ==
    /\ lk[p].ph = "ret"
    /\ wmu' = 0
    /\ lk' = [lk EXCEPT ![p].ph = "held"]
    /\ UNCHANGED <<ranges, rlocked>>

RECURSIVE RemoveRange(_, _, _)
RemoveRange(rs, mn, mx) ==
    IF rs = <<>> THEN <<>>
    ELSE IF Head(rs).min = mn /\ Head(rs).max = mx
         THEN RemoveRange(Tail(rs), mn, mx)
         ELSE <<Head(rs)>> \o RemoveRange(Tail(rs), mn, mx)

\* An UnlockRange that takes the entries out of the slice and leaves their
\* mu locked.
UnlockRangeKeepMu(p) ==
    /\ lk[p].ph = "held"
    /\ ranges' = RemoveRange(ranges, lk[p].min, lk[p].max)
    /\ lk' = [lk EXCEPT ![p] = LkIdle]
    /\ UNCHANGED <<wmu, rlocked>>

\* UnlockRange(min, max): every entry with these bounds is unlocked and
\* taken out of the slice, all under rangesLock.
UnlockRange(p) ==
    /\ lk[p].ph = "held"
    /\ ranges' = RemoveRange(ranges, lk[p].min, lk[p].max)
    /\ rlocked' = rlocked \ {ranges[k].rid : k \in
                     {j \in 1 .. Len(ranges) : ranges[j].min = lk[p].min
                                               /\ ranges[j].max = lk[p].max}}
    /\ lk' = [lk EXCEPT ![p] = LkIdle]
    /\ UNCHANGED wmu

\* LockRange has returned to p and p has not called UnlockRange.
Held(p) == lk[p].ph = "held"

LockStep(p) ==
    \/ LockAcquireMu(p)
    \/ currentlyLockedRanges(p)
    \/ LockSkip(p)
    \/ LockWaitOverlap(p)
    \/ LockAdd(p)
    \/ LockReturn(p)

(***************************************************************************)
(* The goroutines of the engine model: one calls Write, one Compact, one    *)
(* Close, and one calls Begin and releases its transaction.                *)
(***************************************************************************)
Writer == 1
Compactor == 2
Closer == 3
Reader == 4
EngProcs == {Writer, Compactor, Closer, Reader}

LocIdle ==
    [vb |-> <<>>, files |-> <<>>, a |-> <<>>, tasks |-> <<>>, todo |-> {},
     made |-> <<>>, i |-> 0, era |-> 0, late |-> FALSE,
     failed |-> {}, errors |-> <<>>, ret |-> 0]

\* The engine as NewEngine leaves it, no goroutine at work.
EngIdle ==
    /\ pc = [p \in EngProcs |-> "idle"]
    /\ loc = [p \in EngProcs |-> LocIdle]
    /\ objs = <<>>
    /\ metaLock = 0
    /\ queryLock = [w |-> 0, r |-> {}]
    /\ filesLock = 0
    /\ nswaps = 0
    /\ rewrites = {}
    /\ closed = FALSE
    /\ lateOK = FALSE

(***************************************************************************)
(* The data path: Writes and compactions, one at a time, on files with     *)
(* their content.                                                          *)
(***************************************************************************)
\* The series ids, and the largest timestamp of a point of series 1 and of
\* a point of the other series.
DataIds == {1, 2}
MaxDataTime == 5
MaxOtherTime == 3
DataTimes == 1 .. MaxDataTime
IdTimes(id) == IF id = 1 THEN DataTimes ELSE 1 .. MaxOtherTime

\* The number of Writes of a run and the number of points of a batch.
MaxWrites == 3
MaxBatch == 2

NoCompact == [done |-> FALSE, in |-> {}, out |-> NilFile]

\* A cursor for the series id on which no call was made yet.  c is the
\* cursor; the other fields record the calls: n their number, op, seek and
\* res the last call with its argument and result, and since the last SeekTo
\* that returned a value (seeked) t0 its time, got the values the Next calls
\* returned, eof that a Next returned EOF, late that a Next returned a
\* value after that.
FreshCursor(id) ==
    [c |-> newCursor(id), n |-> 0, op |-> "none", seek |-> 0,
     res |-> [kind |-> "none", t |-> 0, v |-> 0],
     seeked |-> FALSE, t0 |-> 0, got |-> <<>>, eof |-> FALSE, late |-> FALSE]

NoCursor == FreshCursor(0)

\* No call of a function is looked at.
NoCall == [op |-> "none", in |-> <<>>, done |-> FALSE, out |-> <<>>]

\* The series keys of the batches and the value of a key that has no
\* entry in a map from keys to ids.
MaxKeys == 3
Keys == 1 .. MaxKeys
NoID == -1

\* No key has an id: the ids file and e.collisions are empty.  hash is
\* e.HashSeriesField, err tells that the last call returned an error.
NoMeta ==
    [hash       |-> [k \in Keys |-> 0],
     ids        |-> [k \in Keys |-> NoID],
     collisions |-> [k \in Keys |-> NoID],
     err        |-> FALSE]

\* The goroutines that create files: two rewrite goroutines started by
\* Write and the goroutine of Compact.
NameCallers == 1 .. 3

\* No goroutine is inside nextFileName and no name was handed out.  at is
\* the position of each goroutine ("out", "loaded", "stored"), reg the
\* value of e.currentFileID it loaded, handed the history of the numbers
\* returned, in the order of the returns.
NoNamers ==
    [at     |-> [g \in NameCallers |-> "out"],
     reg    |-> [g \in NameCallers |-> 0],
     handed |-> <<>>]

DataIdle ==
    /\ dfiles = <<>>
    /\ currentFileID = 0
    /\ dstatus = "ok"
    /\ written = [x \in DataIds \X DataTimes |-> 0]
    /\ nwrites = 0
    /\ compacted = NoCompact
    /\ cur = NoCursor
    /\ call = NoCall
    /\ namers = NoNamers
    /\ meta = NoMeta

\* The Values of the timestamps ts, each with the payload v.
ValuesOf(ts, v) == [i \in 1 .. Cardinality(ts) |-> [t |-> SortedSeq(ts)[i], v |-> v]]

\* The batches (valuesByID as convertKeysAndWriteMetadata returns it): for
\* each id of a non-empty set of ids, timestamps in ascending order.
BatchShapes ==
    {b \in [DataIds -> SUBSET DataTimes] :
        /\ \E id \in DataIds : b[id] # {}
        /\ \A id \in DataIds : b[id] \subseteq IdTimes(id)
        /\ Cardinality(b[1]) + Cardinality(b[2]) <= MaxBatch}

Batch(b, v) == [id \in {x \in DataIds : b[x] # {}} |-> ValuesOf(b[id], v)]

\* The orders a range over a map with the keys S may take.
Orders(S) ==
    {o \in [1 .. Cardinality(S) -> S] : \A i, j \in DOMAIN o : i # j => o[i] # o[j]}

RECURSIVE SortFiles(_, _)
\* sort.Sort(dataFiles), by MinTime: an insertion sort for the short slices
\* of the model, which leaves files with equal MinTime in their order.
SortFiles(sorted, rest) ==
    IF rest = <<>> THEN sorted
    ELSE LET f == Head(rest)
             n == Cardinality({k \in 1 .. Len(sorted) : sorted[k].minTime <= f.minTime})
         IN  SortFiles(SubSeq(sorted, 1, n) \o <<f>> \o SubSeq(sorted, n + 1, Len(sorted)),
                       Tail(rest))

\* A swap that leaves the replaced files in the file set.
SwapKeepOld(files, replaced, newDF) == SortFiles(<<>>, files \o <<newDF>>)

\* The swap at the end of rewriteFile and of Compact: the files without
\* the replaced ones (names), with newDF appended, sorted.
SwapFiles(files, replaced, newDF) ==
    SortFiles(<<>>, SelectSeq(files, LAMBDA f : f.name \notin replaced) \o <<newDF>>)

FileByName(files, n) == files[CHOOSE k \in 1 .. Len(files) : files[k].name = n]

\* What filesAndLock hands to Write for each file.
FileInfo(f) == [min |-> f.minTime, max |-> f.maxTime, size |-> FileSize(f), ref |-> f.name]

\* filesAndLock: the files selected for the batch's range.
filesAndLock(files, min, max) ==
    SelectSeq([k \in 1 .. Len(files) |-> FileInfo(files[k])],
              LAMBDA f : FileTouched(f, min, max))

\* One call of rewriteFile in the engine state st = [files, cur, panic]:
\* the set of states it may leave.
RewriteOutcomes(st, task) ==
    IF st.panic THEN {st}
    ELSE LET oldDF == IF task.old = 0 THEN NilFile ELSE FileByName(st.files, task.old)
         IN  {LET r == rewriteFile(oldDF, task.vals, o)
              IN  IF r.panic THEN [st EXCEPT !.panic = TRUE, !.cur = st.cur + 1]
                  ELSE [files |-> SwapFiles(st.files, {task.old},
                                      [name |-> st.cur + 1] @@ r.file),
                        cur   |-> st.cur + 1,
                        panic |-> FALSE]
              : o \in Orders(DOMAIN task.vals)}

RECURSIVE WriteOutcomes(_, _, _)
\* The rewriteFile goroutines of one Write (todo: their numbers in tasks),
\* run in any order.  A call with no values returns at once and is left out.
WriteOutcomes(st, tasks, todo) ==
    IF todo = {} THEN {st}
    ELSE UNION {UNION {WriteOutcomes(st2, tasks, todo \ {k}) :
                           st2 \in RewriteOutcomes(st, tasks[k])} : k \in todo}

\* Engine.Write for the batch of shape b; its points carry the number of
\* the Write as their payload.
WriteData(b) ==
    /\ dstatus = "ok"
    /\ nwrites < MaxWrites
    /\ LET v     == nwrites + 1
           vb    == Batch(b, v)
           a     == filesAndLock(dfiles, BatchMin(vb), BatchMax(vb))
           tasks == WriteTasks(a, vb)
       IN  \E st \in WriteOutcomes([files |-> dfiles, cur |-> currentFileID,
                                    panic |-> FALSE], tasks,
                                   {k \in 1 .. Len(tasks) : DOMAIN tasks[k].vals # {}}) :
               /\ currentFileID' = st.cur
               /\ IF st.panic
                  THEN /\ dstatus' = "panic"
                       /\ UNCHANGED <<dfiles, written, nwrites>>
                  ELSE /\ dstatus' = "ok"
                       /\ dfiles' = st.files
                       /\ nwrites' = v
                       /\ written' = [x \in DataIds \X DataTimes |->
                                         IF x[2] \in b[x[1]] THEN v ELSE written[x]]
    /\ UNCHANGED <<compacted, cur, call, namers, meta>>
    /\ UNCHANGED lockVars
    /\ UNCHANGED engVars

\* The (id, t, v) triples of the blocks of f.
FileTriples(f) ==
    UNION {{<<f.blocks[k].id, f.blocks[k].vals[n].t, f.blocks[k].vals[n].v>> :
               n \in 1 .. Len(f.blocks[k].vals)} :
           k \in {k \in 1 .. Len(f.blocks) : ~f.blocks[k].junk}}

\* Engine.Compact of the files i..j of the file set (the candidates are a
\* contiguous run of two or more files: all of them for a full compaction,
\* the first run of old enough files otherwise).
CompactData(i, j) ==
    /\ dstatus = "ok"
    /\ i < j
    /\ LET ins == SubSeq(dfiles, i, j)
           r   == CompactMerge(ins)
       IN  /\ currentFileID' = currentFileID + 1
           /\ IF r.panic \/ r.undef
              THEN /\ dstatus' = (IF r.panic THEN "panic" ELSE "undef")
                   /\ UNCHANGED <<dfiles, compacted>>
              ELSE /\ dstatus' = "ok"
                   /\ dfiles' = SwapFiles(dfiles, {ins[k].name : k \in 1 .. Len(ins)},
                                          [name |-> currentFileID + 1] @@ r.file)
                   /\ compacted' = [done |-> TRUE,
                                    in   |-> UNION {FileTriples(ins[k]) : k \in 1 .. Len(ins)},
                                    out  |-> r.file]
    /\ UNCHANGED <<written, nwrites, cur, call, namers, meta>>
    /\ UNCHANGED lockVars
    /\ UNCHANGED engVars

InitData == DataIdle /\ LockIdle /\ EngIdle

NextData ==
    \/ \E b \in BatchShapes : WriteData(b)
    \/ \E i, j \in 1 .. Len(dfiles) : CompactData(i, j)

SpecData == InitData /\ [][NextData]_vars

(***************************************************************************)
(* The engine with its goroutines: Write, Compact, Begin and the release   *)
(* of a transaction, Close, and the Delete of replaced files.              *)
(***************************************************************************)
\* The number of Write calls of a run, and the batches they carry: one
\* point of series 1.
MaxEngineWrites == 2
EngBatches == {b \in BatchShapes : Cardinality(b[1]) = 1 /\ b[1] \subseteq Times /\ b[2] = {}}

\* The *dataFile pointers of a slice of files.
Names(files) == [k \in 1 .. Len(files) |-> files[k].name]
NameSet(files) == {files[k].name : k \in 1 .. Len(files)}

\* A dataFile as NewDataFile returns it: mapped, f set, mu free (rl: the
\* holders of mu.RLock); del counts the pending Delete calls; inAt and
\* outAt record when it entered and left Engine.files.
NewObj(file) ==
    [file |-> file, mmap |-> TRUE, f |-> TRUE, rl |-> {}, del |-> 0,
     inAt |-> 0, outAt |-> 0]

\* A d.mu.Lock() that does not wait for the holders of d.mu.RLock().
CanLockAlways(n) == TRUE

\* d.mu.Lock() can return: nobody holds d.mu (Delete and Close hold it
\* within one step).
CanLock(n) == objs[n].rl = {}

\* The pending deletes of the files `olds` after a swap at time `at`, and
\* the entry of `new`.
AfterSwap(olds, new, at) ==
    [n \in 1 .. Len(objs) |->
        IF n = new THEN [objs[n] EXCEPT !.inAt = at]
        ELSE IF n \in olds
             THEN [objs[n] EXCEPT !.del = @ + 1,
                                  !.outAt = IF n \in NameSet(dfiles) THEN at ELSE @]
             ELSE objs[n]]

UnchangedData == UNCHANGED <<written, compacted, cur, call, namers, meta>>
UnchangedLocks == UNCHANGED <<metaLock, queryLock, filesLock>>
UnchangedHist == UNCHANGED <<nswaps, rewrites, closed, lateOK>>

\* A goroutine inside LockRange takes its next step.
EngLockStep(p) ==
    /\ dstatus = "ok"
    /\ pc[p] \in {"wlock", "clock", "klock"}
    /\ LockStep(p)
    /\ UNCHANGED dataVars
    /\ UNCHANGED engVars

\* Engine.Write is called: convertKeysAndWriteMetadata under metaLock.
WriteCall(p, b) ==
    /\ dstatus = "ok"
    /\ pc[p] = "idle"
    /\ nwrites < MaxEngineWrites
    /\ metaLock = 0
    /\ nwrites' = nwrites + 1
    /\ loc' = [loc EXCEPT ![p] = [LocIdle EXCEPT !.vb = Batch(b, nwrites + 1),
                                                 !.late = closed]]
    /\ pc' = [pc EXCEPT ![p] = "wcopy"]
    /\ UNCHANGED <<dfiles, currentFileID, dstatus, objs>>
    /\ UNCHANGED lockVars
    /\ UnchangedData /\ UnchangedLocks /\ UnchangedHist

\* filesAndLock: files := e.copyFilesCollection()
WriteCopy(p) ==
    /\ dstatus = "ok"
    /\ pc[p] = "wcopy"
    /\ filesLock = 0
    /\ loc' = [loc EXCEPT ![p].files = Names(dfiles)]
    /\ pc' = [pc EXCEPT ![p] = "wrange"]
    /\ UNCHANGED <<dfiles, currentFileID, dstatus, nwrites, objs>>
    /\ UNCHANGED lockVars
    /\ UnchangedData /\ UnchangedLocks /\ UnchangedHist

\* filesAndLock: the loop over e.files (read without filesLock) and the
\* call of LockRange(lockStart, lockEnd).
WriteRange(p) ==
    /\ dstatus = "ok"
    /\ pc[p] = "wrange"
    /\ LET a == filesAndLock(dfiles, BatchMin(loc[p].vb), BatchMax(loc[p].vb))
       IN  /\ LockCall(p, LockStart(a, BatchMin(loc[p].vb)), LockEnd(a, BatchMax(loc[p].vb)))
           /\ loc' = [loc EXCEPT ![p].a = a]
    /\ pc' = [pc EXCEPT ![p] = "wlock"]
    /\ UNCHANGED <<dfiles, currentFileID, dstatus, nwrites, objs>>
    /\ UnchangedData /\ UnchangedLocks /\ UnchangedHist

\* filesAndLock: the range is held; the files are compared with a new copy
\* and, when they differ, the range is unlocked and the loop starts over.
WriteCheck(p) ==
    /\ dstatus = "ok"
    /\ pc[p] = "wlock"
    /\ Held(p)
    /\ filesLock = 0
    /\ IF Names(dfiles) = loc[p].files
       THEN /\ loc' = [loc EXCEPT
                          ![p].tasks = WriteTasks(loc[p].a, loc[p].vb),
                          ![p].todo = {k \in 1 .. Len(WriteTasks(loc[p].a, loc[p].vb)) :
                                          DOMAIN WriteTasks(loc[p].a, loc[p].vb)[k].vals # {}}]
            /\ pc' = [pc EXCEPT ![p] = "wrewrite"]
            /\ UNCHANGED lockVars
       ELSE /\ UnlockRange(p)
            /\ loc' = [loc EXCEPT ![p].files = <<>>, ![p].a = <<>>]
            /\ pc' = [pc EXCEPT ![p] = "wcopy"]
    /\ UNCHANGED <<dfiles, currentFileID, dstatus, nwrites, objs>>
    /\ UnchangedData /\ UnchangedLocks /\ UnchangedHist

\* The process dies: a panic, or a read of an unmapped file.
Crash ==
    /\ dstatus' = "panic"
    /\ UNCHANGED <<dfiles, currentFileID, nwrites, pc, loc, objs>>
    /\ UNCHANGED lockVars
    /\ UnchangedData /\ UnchangedLocks /\ UnchangedHist

\* rewriteFile up to the new file: the old file is read, the new one is
\* written under the next file name and mapped.
RewriteMake(p, k) ==
    /\ dstatus = "ok"
    /\ pc[p] = "wrewrite"
    /\ k \in loc[p].todo
    /\ LET task == loc[p].tasks[k]
       IN  IF task.old # 0 /\ ~objs[task.old].mmap
           THEN Crash
           ELSE \E o \in Orders(DOMAIN task.vals) :
                    LET r == rewriteFile(IF task.old = 0 THEN NilFile
                                         ELSE objs[task.old].file, task.vals, o)
                    IN  IF r.panic
                        THEN Crash
                        ELSE /\ currentFileID' = currentFileID + 1
                             /\ objs' = Append(objs,
                                    NewObj([name |-> Len(objs) + 1,
                                            seq  |-> currentFileID + 1] @@ r.file))
                             /\ loc' = [loc EXCEPT
                                    ![p].todo = @ \ {k},
                                    ![p].made = Append(@, [old |-> task.old,
                                                           new |-> Len(objs) + 1,
                                                           sw  |-> FALSE])]
                             /\ UNCHANGED <<dfiles, dstatus, nwrites, pc>>
                             /\ UNCHANGED lockVars
                             /\ UnchangedData /\ UnchangedLocks /\ UnchangedHist

\* rewriteFile, the swap under filesLock, and the Delete of the old file
\* handed to a goroutine.
RewriteSwap(p, j) ==
    /\ dstatus = "ok"
    /\ pc[p] = "wrewrite"
    /\ j \in 1 .. Len(loc[p].made)
    /\ ~loc[p].made[j].sw
    /\ filesLock = 0
    /\ LET old == loc[p].made[j].old
           new == loc[p].made[j].new
       IN  /\ dfiles' = SwapFiles(dfiles, {old}, objs[new].file)
           /\ nswaps' = nswaps + 1
           /\ objs' = AfterSwap({old} \ {0}, new, nswaps + 1)
           /\ rewrites' = IF old \in NameSet(dfiles)
                          THEN rewrites \cup {[old |-> old, new |-> new]}
                          ELSE rewrites
    /\ loc' = [loc EXCEPT ![p].made[j].sw = TRUE]
    /\ UNCHANGED <<currentFileID, dstatus, nwrites, pc, closed, lateOK>>
    /\ UNCHANGED lockVars
    /\ UnchangedData /\ UnchangedLocks

\* Write returns nil: every rewriteFile is done, the range is unlocked.
WriteDone(p) ==
    /\ dstatus = "ok"
    /\ pc[p] = "wrewrite"
    /\ loc[p].todo = {}
    /\ \A j \in 1 .. Len(loc[p].made) : loc[p].made[j].sw
    /\ loc[p].failed = {}
    /\ loc[p].errors = <<>>
    /\ UnlockRange(p)
    /\ lateOK' = (lateOK \/ loc[p].late)
    /\ pc' = [pc EXCEPT ![p] = "idle"]
    /\ loc' = [loc EXCEPT ![p] = LocIdle]
    /\ UNCHANGED <<dfiles, currentFileID, dstatus, nwrites, objs>>
    /\ UNCHANGED <<nswaps, rewrites, closed>>
    /\ UnchangedData /\ UnchangedLocks

\* rewriteFile returns an error: os.OpenFile of the next file name, a
\* f.Write or writeIndexAndGetDataFile failed.  Every such return comes
\* before the swap; no dataFile is made.
RewriteFail(p, k) ==
    /\ dstatus = "ok"
    /\ pc[p] = "wrewrite"
    /\ k \in loc[p].todo
    /\ currentFileID' = currentFileID + 1
    /\ loc' = [loc EXCEPT ![p].todo = @ \ {k}, ![p].failed = @ \cup {k}]
    /\ UNCHANGED <<dfiles, dstatus, nwrites, pc, objs>>
    /\ UNCHANGED lockVars
    /\ UnchangedData /\ UnchangedLocks /\ UnchangedHist

\* The goroutine of a failed rewriteFile: mu.Lock(), errors =
\* append(errors, err), mu.Unlock().  The error is named by its task.
RecordError(p, k) ==
    /\ dstatus = "ok"
    /\ pc[p] = "wrewrite"
    /\ k \in loc[p].failed
    /\ loc' = [loc EXCEPT ![p].failed = @ \ {k}, ![p].errors = Append(@, k)]
    /\ UNCHANGED <<dfiles, currentFileID, dstatus, nwrites, pc, objs>>
    /\ UNCHANGED lockVars
    /\ UnchangedData /\ UnchangedLocks /\ UnchangedHist

\* The error recorded last.
LastError(errors) == errors[Len(errors)]

\* return errors[0]
FirstError(errors) == errors[1]

\* A Write that returns an error and leaves its range locked.
WriteFailHolding(p) ==
    /\ dstatus = "ok"
    /\ pc[p] = "wrewrite"
    /\ loc[p].todo = {}
    /\ \A j \in 1 .. Len(loc[p].made) : loc[p].made[j].sw
    /\ loc[p].failed = {}
    /\ loc[p].errors # <<>>
    /\ pc' = [pc EXCEPT ![p] = "idle"]
    /\ loc' = [loc EXCEPT ![p] = [LocIdle EXCEPT !.ret = FirstError(loc[p].errors)]]
    /\ UNCHANGED <<dfiles, currentFileID, dstatus, nwrites, objs>>
    /\ UNCHANGED lockVars
    /\ UnchangedData /\ UnchangedLocks /\ UnchangedHist

\* Write returns an error: writes.Wait() is over and len(errors) > 0; the
\* range is unlocked.  ret keeps what the call returned.
WriteFail(p) ==
    /\ dstatus = "ok"
    /\ pc[p] = "wrewrite"
    /\ loc[p].todo = {}
    /\ \A j \in 1 .. Len(loc[p].made) : loc[p].made[j].sw
    /\ loc[p].failed = {}
    /\ loc[p].errors # <<>>
    /\ UnlockRange(p)
    /\ pc' = [pc EXCEPT ![p] = "idle"]
    /\ loc' = [loc EXCEPT ![p] = [LocIdle EXCEPT !.ret = FirstError(loc[p].errors)]]
    /\ UNCHANGED <<dfiles, currentFileID, dstatus, nwrites, objs>>
    /\ UnchangedData /\ UnchangedLocks /\ UnchangedHist

\* Engine.Compact(true) is called: the files are copied and their range
\* is asked for.
CompactCall(p) ==
    /\ dstatus = "ok"
    /\ pc[p] = "idle"
    /\ filesLock = 0
    /\ Len(dfiles) >= 2
    /\ LockCall(p, dfiles[1].minTime, dfiles[Len(dfiles)].maxTime)
    /\ loc' = [loc EXCEPT ![p] = [LocIdle EXCEPT !.files = Names(dfiles), !.late = closed]]
    /\ pc' = [pc EXCEPT ![p] = "clock"]
    /\ UNCHANGED <<dfiles, currentFileID, dstatus, nwrites, objs>>
    /\ UnchangedData /\ UnchangedLocks /\ UnchangedHist

\* The range is held: the files are compared with a new copy; when they
\* differ the range is unlocked and the loop starts over.
CompactCheck(p) ==
    /\ dstatus = "ok"
    /\ pc[p] = "clock"
    /\ Held(p)
    /\ filesLock = 0
    /\ IF Names(dfiles) = loc[p].files
       THEN /\ pc' = [pc EXCEPT ![p] = "cmerge"]
            /\ UNCHANGED loc
            /\ UNCHANGED lockVars
       ELSE /\ UnlockRange(p)
            /\ pc' = [pc EXCEPT ![p] = "idle"]
            /\ loc' = [loc EXCEPT ![p] = LocIdle]
    /\ UNCHANGED <<dfiles, currentFileID, dstatus, nwrites, objs>>
    /\ UnchangedData /\ UnchangedLocks /\ UnchangedHist

\* The merge of the files into the new file.
CompactMake(p) ==
    /\ dstatus = "ok"
    /\ pc[p] = "cmerge"
    /\ LET r == CompactMerge([k \in 1 .. Len(loc[p].files) |-> objs[loc[p].files[k]].file])
       IN  IF \E k \in 1 .. Len(loc[p].files) : ~objs[loc[p].files[k]].mmap
           THEN Crash
           ELSE IF r.panic \/ r.undef
           THEN /\ dstatus' = (IF r.panic THEN "panic" ELSE "undef")
                /\ UNCHANGED <<dfiles, currentFileID, nwrites, pc, loc, objs>>
                /\ UNCHANGED lockVars
                /\ UnchangedData /\ UnchangedLocks /\ UnchangedHist
           ELSE /\ currentFileID' = currentFileID + 1
                /\ objs' = Append(objs, NewObj([name |-> Len(objs) + 1,
                                                seq  |-> currentFileID + 1] @@ r.file))
                /\ loc' = [loc EXCEPT ![p].made = <<[old |-> 0, new |-> Len(objs) + 1,
                                                      sw |-> FALSE]>>]
                /\ pc' = [pc EXCEPT ![p] = "cswap"]
                /\ UNCHANGED <<dfiles, dstatus, nwrites>>
                /\ UNCHANGED lockVars
                /\ UnchangedData /\ UnchangedLocks /\ UnchangedHist

\* The swap under filesLock; the Delete of the files goes to a goroutine.
CompactSwap(p) ==
    /\ dstatus = "ok"
    /\ pc[p] = "cswap"
    /\ filesLock = 0
    /\ dfiles' = SwapFiles(dfiles, {loc[p].files[k] : k \in 1 .. Len(loc[p].files)},
                           objs[loc[p].made[1].new].file)
    /\ nswaps' = nswaps + 1
    /\ objs' = AfterSwap({loc[p].files[k] : k \in 1 .. Len(loc[p].files)},
                         loc[p].made[1].new, nswaps + 1)
    /\ pc' = [pc EXCEPT ![p] = "cdone"]
    /\ UNCHANGED <<currentFileID, dstatus, nwrites, loc, rewrites, closed, lateOK>>
    /\ UNCHANGED lockVars
    /\ UnchangedData /\ UnchangedLocks

\* Compact returns: the deferred UnlockRange.
CompactDone(p) ==
    /\ dstatus = "ok"
    /\ pc[p] = "cdone"
    /\ UnlockRange(p)
    /\ pc' = [pc EXCEPT ![p] = "idle"]
    /\ loc' = [loc EXCEPT ![p] = LocIdle]
    /\ UNCHANGED <<dfiles, currentFileID, dstatus, nwrites, objs>>
    /\ UnchangedData /\ UnchangedLocks /\ UnchangedHist

\* A Delete that returns without closing and removing the file.
DeleteSkip(n) ==
    /\ dstatus = "ok"
    /\ objs[n].del > 0
    /\ CanLock(n)
    /\ objs' = [objs EXCEPT ![n].del = @ - 1]
    /\ UNCHANGED <<dfiles, currentFileID, dstatus, nwrites, pc, loc>>
    /\ UNCHANGED lockVars
    /\ UnchangedData /\ UnchangedLocks /\ UnchangedHist

\* dataFile.Delete in its goroutine: d.mu.Lock(), close, os.Remove and
\* d.f = nil.  On a file already deleted d.f.Name() is a call on nil.
Delete(n) ==
    /\ dstatus = "ok"
    /\ objs[n].del > 0
    /\ CanLock(n)
    /\ IF ~objs[n].f
       THEN Crash
       ELSE /\ objs' = [objs EXCEPT ![n].mmap = FALSE, ![n].f = FALSE, ![n].del = @ - 1]
            /\ UNCHANGED <<dfiles, currentFileID, dstatus, nwrites, pc, loc>>
            /\ UNCHANGED lockVars
            /\ UnchangedData /\ UnchangedLocks /\ UnchangedHist

\* Engine.Begin: e.queryLock.RLock()
BeginQueryLock(r) ==
    /\ dstatus = "ok"
    /\ pc[r] = "idle"
    /\ queryLock.w = 0
    /\ queryLock' = [queryLock EXCEPT !.r = @ \cup {r}]
    /\ loc' = [loc EXCEPT ![r] = [LocIdle EXCEPT !.late = closed]]
    /\ pc' = [pc EXCEPT ![r] = "bcopy"]
    /\ UNCHANGED <<dfiles, currentFileID, dstatus, nwrites, objs, metaLock, filesLock>>
    /\ UNCHANGED lockVars
    /\ UnchangedData /\ UnchangedHist

\* Engine.Begin: files = e.copyFilesCollection()
BeginCopy(r) ==
    /\ dstatus = "ok"
    /\ pc[r] = "bcopy"
    /\ filesLock = 0
    /\ loc' = [loc EXCEPT ![r].files = Names(dfiles), ![r].i = 1, ![r].era = nswaps]
    /\ pc' = [pc EXCEPT ![r] = "brlock"]
    /\ UNCHANGED <<dfiles, currentFileID, dstatus, nwrites, objs>>
    /\ UNCHANGED lockVars
    /\ UnchangedData /\ UnchangedLocks /\ UnchangedHist

\* Engine.Begin: f.mu.RLock() on the next file of the copy.
BeginRLock(r) ==
    /\ dstatus = "ok"
    /\ pc[r] = "brlock"
    /\ loc[r].i <= Len(loc[r].files)
    /\ objs' = [objs EXCEPT ![loc[r].files[loc[r].i]].rl = @ \cup {r}]
    /\ loc' = [loc EXCEPT ![r].i = @ + 1]
    /\ UNCHANGED <<dfiles, currentFileID, dstatus, nwrites, pc>>
    /\ UNCHANGED lockVars
    /\ UnchangedData /\ UnchangedLocks /\ UnchangedHist

\* Engine.Begin: "ensure they're all still open"; a file with f == nil
\* makes Begin unlock the files and copy again, otherwise the transaction
\* is returned.
BeginCheck(r) ==
    /\ dstatus = "ok"
    /\ pc[r] = "brlock"
    /\ loc[r].i > Len(loc[r].files)
    /\ IF \E k \in 1 .. Len(loc[r].files) : ~objs[loc[r].files[k]].f
       THEN /\ objs' = [n \in 1 .. Len(objs) |-> [objs[n] EXCEPT !.rl = @ \ {r}]]
            /\ loc' = [loc EXCEPT ![r].files = <<>>, ![r].i = 0]
            /\ pc' = [pc EXCEPT ![r] = "bcopy"]
            /\ UNCHANGED lateOK
       ELSE /\ pc' = [pc EXCEPT ![r] = "tx"]
            /\ lateOK' = (lateOK \/ loc[r].late)
            /\ UNCHANGED <<objs, loc>>
    /\ UNCHANGED <<dfiles, currentFileID, dstatus, nwrites>>
    /\ UNCHANGED <<nswaps, rewrites, closed>>
    /\ UNCHANGED lockVars
    /\ UnchangedData /\ UnchangedLocks

\* The transaction is released: the shared locks of its files and of
\* queryLock are given back.
TxRelease(r) ==
    /\ dstatus = "ok"
    /\ pc[r] = "tx"
    /\ objs' = [n \in 1 .. Len(objs) |-> [objs[n] EXCEPT !.rl = @ \ {r}]]
    /\ queryLock' = [queryLock EXCEPT !.r = @ \ {r}]
    /\ pc' = [pc EXCEPT ![r] = "idle"]
    /\ loc' = [loc EXCEPT ![r] = LocIdle]
    /\ UNCHANGED <<dfiles, currentFileID, dstatus, nwrites, metaLock, filesLock>>
    /\ UNCHANGED lockVars
    /\ UnchangedData /\ UnchangedHist

\* Engine.Close: e.queryLock.Lock()
CloseQueryLock(c) ==
    /\ dstatus = "ok"
    /\ pc[c] = "idle"
    /\ ~closed
    /\ queryLock.w = 0
    /\ queryLock.r = {}
    /\ queryLock' = [queryLock EXCEPT !.w = c]
    /\ pc' = [pc EXCEPT ![c] = "kmeta"]
    /\ UNCHANGED <<dfiles, currentFileID, dstatus, nwrites, loc, objs, metaLock, filesLock>>
    /\ UNCHANGED lockVars
    /\ UnchangedData /\ UnchangedHist

\* Engine.Close: e.metaLock.Lock() and the call of LockRange for the
\* whole range.
CloseMetaLock(c) ==
    /\ dstatus = "ok"
    /\ pc[c] = "kmeta"
    /\ metaLock = 0
    /\ metaLock' = c
    /\ LockCall(c, MinInt64, MaxInt64)
    /\ pc' = [pc EXCEPT ![c] = "klock"]
    /\ UNCHANGED <<dfiles, currentFileID, dstatus, nwrites, loc, objs, queryLock, filesLock>>
    /\ UnchangedData /\ UnchangedHist

\* Engine.Close: the range is held; e.filesLock.Lock()
CloseFilesLock(c) ==
    /\ dstatus = "ok"
    /\ pc[c] = "klock"
    /\ Held(c)
    /\ filesLock = 0
    /\ filesLock' = c
    /\ pc' = [pc EXCEPT ![c] = "kwait"]
    /\ UNCHANGED <<dfiles, currentFileID, dstatus, nwrites, loc, objs, metaLock, queryLock>>
    /\ UNCHANGED lockVars
    /\ UnchangedData /\ UnchangedHist

\* Engine.Close: e.deletesPending.Wait() returns, every file of e.files is
\* closed (df.Close: d.mu.Lock(), munmap), the file set and currentFileID
\* are reset, and the deferred filesLock.Unlock() runs.
CloseFiles(c) ==
    /\ dstatus = "ok"
    /\ pc[c] = "kwait"
    /\ \A n \in 1 .. Len(objs) : objs[n].del = 0
    /\ \A n \in NameSet(dfiles) : CanLock(n)
    /\ objs' = [n \in 1 .. Len(objs) |->
                   IF n \in NameSet(dfiles)
                   THEN [objs[n] EXCEPT !.mmap = FALSE, !.outAt = nswaps + 1]
                   ELSE objs[n]]
    /\ dfiles' = <<>>
    /\ currentFileID' = 0
    /\ nswaps' = nswaps + 1
    /\ filesLock' = 0
    /\ pc' = [pc EXCEPT ![c] = "kunlock"]
    /\ UNCHANGED <<dstatus, nwrites, loc, metaLock, queryLock, rewrites, closed, lateOK>>
    /\ UNCHANGED lockVars
    /\ UnchangedData

\* Engine.Close: the deferred UnlockRange.
CloseUnlockRange(c) ==
    /\ dstatus = "ok"
    /\ pc[c] = "kunlock"
    /\ UnlockRange(c)
    /\ pc' = [pc EXCEPT ![c] = "kret"]
    /\ UNCHANGED <<dfiles, currentFileID, dstatus, nwrites, loc, objs>>
    /\ UnchangedData /\ UnchangedLocks /\ UnchangedHist

\* Engine.Close: the deferred metaLock.Unlock() and queryLock.Unlock();
\* Close returns.
CloseReturn(c) ==
    /\ dstatus = "ok"
    /\ pc[c] = "kret"
    /\ metaLock' = 0
    /\ queryLock' = [queryLock EXCEPT !.w = 0]
    /\ closed' = TRUE
    /\ pc' = [pc EXCEPT ![c] = "idle"]
    /\ UNCHANGED <<dfiles, currentFileID, dstatus, nwrites, loc, objs, filesLock>>
    /\ UNCHANGED <<nswaps, rewrites, lateOK>>
    /\ UNCHANGED lockVars
    /\ UnchangedData

InitEngine == DataIdle /\ LockIdle /\ EngIdle

WriterStep(p) ==
    \/ \E b \in EngBatches : WriteCall(p, b)
    \/ WriteCopy(p)
    \/ WriteRange(p)
    \/ WriteCheck(p)
    \/ \E k \in loc[p].todo : RewriteMake(p, k)
    \/ \E j \in 1 .. Len(loc[p].made) : RewriteSwap(p, j)
    \/ WriteDone(p)

CompactorStep(p) ==
    \/ CompactCall(p)
    \/ CompactCheck(p)
    \/ CompactMake(p)
    \/ CompactSwap(p)
    \/ CompactDone(p)

ReaderStep(r) ==
    \/ BeginQueryLock(r)
    \/ BeginCopy(r)
    \/ BeginRLock(r)
    \/ BeginCheck(r)
    \/ TxRelease(r)

CloserStep(c) ==
    \/ CloseQueryLock(c)
    \/ CloseMetaLock(c)
    \/ CloseFilesLock(c)
    \/ CloseFiles(c)
    \/ CloseUnlockRange(c)
    \/ CloseReturn(c)

NextEngine ==
    \/ WriterStep(Writer)
    \/ CompactorStep(Compactor)
    \/ \E p \in Procs : EngLockStep(p)
    \/ ReaderStep(Reader)
    \/ CloserStep(Closer)
    \/ \E n \in 1 .. Len(objs) : Delete(n)

SpecEngine == InitEngine /\ [][NextEngine]_vars

(***************************************************************************)
(* SpecCompact: Compact(true) on an engine with two or more files and no   *)
(* Write and no Close; transactions are begun and released meanwhile.      *)
(* Each file holds one point of series 1.  The goroutine that deletes the  *)
(* replaced files is scheduled (weak fairness of Delete).                  *)
(***************************************************************************)
\* The k-th file of the file set, with the point at time t.
QuietFile(k, t) ==
    [name |-> k, seq |-> k]
        @@ rewriteFile(NilFile, Batch([id \in DataIds |-> IF id = 1 THEN {t} ELSE {}], k),
                       <<1>>).file

\* The file sets: a file for each timestamp of a set of two or more.
QuietFileSets ==
    {[k \in 1 .. Cardinality(S) |-> QuietFile(k, SortedSeq(S)[k])] :
        S \in {S \in SUBSET Times : Cardinality(S) >= 2}}

\* The dataFile objects there can be: the files and the compacted file.
QuietObjs == 1 .. (MaxTime + 1)

InitCompact ==
    /\ dfiles \in QuietFileSets
    /\ objs = [k \in 1 .. Len(dfiles) |-> NewObj(dfiles[k])]
    /\ currentFileID = Len(dfiles)
    /\ dstatus = "ok"
    /\ written = [x \in DataIds \X DataTimes |-> 0]
    /\ nwrites = 0
    /\ compacted = NoCompact
    /\ cur = NoCursor
    /\ call = NoCall
    /\ namers = NoNamers
    /\ meta = NoMeta
    /\ pc = [p \in EngProcs |-> "idle"]
    /\ loc = [p \in EngProcs |-> LocIdle]
    /\ metaLock = 0
    /\ queryLock = [w |-> 0, r |-> {}]
    /\ filesLock = 0
    /\ nswaps = 0
    /\ rewrites = {}
    /\ closed = FALSE
    /\ lateOK = FALSE
    /\ LockIdle

DeleteFile(n) == n <= Len(objs) /\ Delete(n)

NextCompact ==
    \/ CompactorStep(Compactor)
    \/ EngLockStep(Compactor)
    \/ ReaderStep(Reader)
    \/ \E n \in QuietObjs : DeleteFile(n)

SpecCompact ==
    InitCompact /\ [][NextCompact]_vars /\ \A n \in QuietObjs : WF_vars(DeleteFile(n))

(***************************************************************************)
(* SpecWriteErr: Write on an engine whose disk may fail: each rewriteFile  *)
(* of a Write either makes and swaps in its file or returns an error.      *)
(* The batches hold one or more points of series 1; replaced files are     *)
(* deleted meanwhile.                                                      *)
(***************************************************************************)
ErrBatches == {b \in BatchShapes : b[1] # {} /\ b[1] \subseteq Times /\ b[2] = {}}

NextWriteErr ==
    \/ \E b \in ErrBatches : WriteCall(Writer, b)
    \/ WriteCopy(Writer)
    \/ WriteRange(Writer)
    \/ EngLockStep(Writer)
    \/ WriteCheck(Writer)
    \/ \E k \in loc[Writer].todo : RewriteMake(Writer, k)
    \/ \E k \in loc[Writer].todo : RewriteFail(Writer, k)
    \/ \E k \in loc[Writer].failed : RecordError(Writer, k)
    \/ \E j \in 1 .. Len(loc[Writer].made) : RewriteSwap(Writer, j)
    \/ WriteDone(Writer)
    \/ WriteFail(Writer)
    \/ \E n \in 1 .. Len(objs) : Delete(n)

SpecWriteErr == InitEngine /\ [][NextWriteErr]_vars

(***************************************************************************)
(* SpecCursor: a cursor over a file set of one or two files, on which      *)
(* SeekTo and Next are called.  The first file holds points of             *)
(* 1 .. FirstFileLast and is the result of one Write or of two (the second *)
(* merged into the file of the first), the second file holds points of     *)
(* SecondFileFirst .. MaxCursorTime; a timestamp between the two lies in   *)
(* no file.  Series 2 has at most one point in a file.                     *)
(***************************************************************************)
FirstFileLast == 3
SecondFileFirst == 5
MaxCursorTime == 6
SeekTimes == 1 .. (MaxCursorTime + 1)

\* The calls made on a cursor: at most MaxCalls, a SeekTo only as one of the
\* first MaxPre + 1.
MaxPre == 1
MaxCalls == 9

\* The points of a file: for each id a set of timestamps of W.
CursorContents(W, other) ==
    {b \in [DataIds -> SUBSET W] :
        /\ b[2] \subseteq {other}
        /\ \E id \in DataIds : b[id] # {}}

ContentUpTo(b, k) == [id \in DataIds |-> {t \in b[id] : t <= k}]
ContentAfter(b, k) == [id \in DataIds |-> {t \in b[id] : t > k}]

\* The files one rewriteFile(old, ...) of the points b may produce.
OneRewrite(old, b, v) ==
    {rewriteFile(old, Batch(b, v), o) : o \in Orders(DOMAIN Batch(b, v))}

\* The files among the results rs whose blocks all are encoded blocks.
WholeFiles(rs) ==
    {r.file : r \in {x \in rs : /\ ~x.panic
                                 /\ \A k \in 1 .. Len(x.file.blocks) :
                                        ~x.file.blocks[k].junk}}

\* The files with the points b written by two Writes, up to k and after k.
TwoRewrites(b, k) ==
    WholeFiles(UNION {OneRewrite(f, ContentAfter(b, k), 2) :
                         f \in WholeFiles(OneRewrite(NilFile, ContentUpTo(b, k), 1))})

FirstFiles ==
    LET W == 1 .. FirstFileLast
        C == CursorContents(W, 2)
        S == {x \in C \X W :
                 /\ \E id \in DataIds : ContentUpTo(x[1], x[2])[id] # {}
                 /\ \E id \in DataIds : ContentAfter(x[1], x[2])[id] # {}}
    IN  WholeFiles(UNION {OneRewrite(NilFile, b, 1) : b \in C})
            \cup UNION {TwoRewrites(x[1], x[2]) : x \in S}

SecondFiles ==
    WholeFiles(UNION {OneRewrite(NilFile, b, 3) :
                         b \in CursorContents(SecondFileFirst .. MaxCursorTime,
                                              SecondFileFirst)})

CursorFileSets ==
    {<<[name |-> 1] @@ f>> : f \in FirstFiles}
        \cup {<<[name |-> 1] @@ x[1], [name |-> 2] @@ x[2]>> :
                 x \in FirstFiles \X SecondFiles}

InitCursor ==
    /\ dfiles \in CursorFileSets
    /\ cur \in {FreshCursor(id) : id \in DataIds}
    /\ call = NoCall
    /\ namers = NoNamers
    /\ meta = NoMeta
    /\ currentFileID = Len(dfiles)
    /\ dstatus = "ok"
    /\ written = [x \in DataIds \X DataTimes |-> 0]
    /\ nwrites = 0
    /\ compacted = NoCompact
    /\ LockIdle
    /\ EngIdle

\* The last call on the cursor has returned (or none was made).
CursorReturned == cur.res.kind \in {"none", "val", "eof"}

UnchangedByCursor ==
    /\ UNCHANGED <<dfiles, currentFileID, dstatus, written, nwrites, compacted, call, namers, meta>>
    /\ UNCHANGED lockVars
    /\ UNCHANGED engVars

\* The cursor and the history of its calls after SeekTo(seek) returned r.
AfterSeekTo(r, seek) ==
    [c |-> r.c, n |-> cur.n + 1, op |-> "seek", seek |-> seek,
     res |-> [kind |-> r.kind, t |-> r.t, v |-> r.v],
     seeked |-> r.kind = "val", t0 |-> r.t, got |-> <<>>,
     eof |-> FALSE, late |-> FALSE]

\* A call of SeekTo(seek).
CursorSeekTo(seek) ==
    /\ CursorReturned
    /\ cur.n <= MaxPre
    /\ cur' = AfterSeekTo(SeekTo(dfiles, cur.c, seek), seek)
    /\ UnchangedByCursor

\* The cursor and the history of its calls after Next() returned r.
AfterNext(r) ==
    [cur EXCEPT
        !.c = r.c, !.n = @ + 1, !.op = "next",
        !.res = [kind |-> r.kind, t |-> r.t, v |-> r.v],
        !.got = IF cur.seeked /\ r.kind = "val"
                THEN Append(@, [t |-> r.t, v |-> r.v]) ELSE @,
        !.eof = @ \/ r.kind = "eof",
        !.late = @ \/ (cur.eof /\ r.kind # "eof")]

\* A call of Next().
CursorNextCall ==
    /\ CursorReturned
    /\ cur.n < MaxCalls
    /\ cur' = AfterNext(CursorNext(dfiles, cur.c))
    /\ UnchangedByCursor

NextCursor ==
    \/ \E seek \in SeekTimes : CursorSeekTo(seek)
    \/ CursorNextCall

SpecCursor == InitCursor /\ [][NextCursor]_vars

(***************************************************************************)
(* SpecRelease: the goroutines of SpecEngine with the error returns of      *)
(* Write and Compact.                                                       *)
(***************************************************************************)

\* The largest e.currentFileID at which a Compact that fails is looked at.
MaxFailID == 2

\* Compact returns an error (os.OpenFile of the next file name, a f.Write,
\* writeIndexAndGetDataFile): every such return comes after the defer that
\* calls UnlockRange(minTime, maxTime) and before the swap.
CompactFail(p) ==
    /\ dstatus = "ok"
    /\ pc[p] = "cmerge"
    /\ currentFileID <= MaxFailID
    /\ currentFileID' = currentFileID + 1
    /\ UnlockRange(p)
    /\ pc' = [pc EXCEPT ![p] = "idle"]
    /\ loc' = [loc EXCEPT ![p] = LocIdle]
    /\ UNCHANGED <<dfiles, dstatus, nwrites, objs>>
    /\ UnchangedData /\ UnchangedLocks /\ UnchangedHist

NextRelease ==
    \/ WriterStep(Writer)
    \/ \E k \in loc[Writer].todo : RewriteFail(Writer, k)
    \/ \E k \in loc[Writer].failed : RecordError(Writer, k)
    \/ WriteFail(Writer)
    \/ CompactorStep(Compactor)
    \/ CompactFail(Compactor)
    \/ \E p \in Procs : EngLockStep(p)
    \/ CloserStep(Closer)
    \/ \E n \in 1 .. Len(objs) : Delete(n)

SpecRelease == InitEngine /\ [][NextRelease]_vars

(***************************************************************************)
(* SpecConsume: two goroutines that call Write on an engine that holds two  *)
(* or more files, with the Delete goroutines of the files they replace.     *)
(* Compact and Close do not run; the second Write runs in the place of      *)
(* Close's goroutine.                                                       *)
(***************************************************************************)
Writer2 == 3

Writers == {Writer, Writer2}

\* The batches of the first Write are one point of series 1 at the time of
\* a file; those of the second are two points of series 1, up to one past
\* the last file's timestamp.
ConsumeBatches(p) ==
    IF p = Writer THEN EngBatches
    ELSE {b \in BatchShapes : /\ Cardinality(b[1]) = 2
                              /\ b[1] \subseteq 1 .. (MaxTime + 1)
                              /\ b[2] = {}}

WriteSteps(p) ==
    \/ \E b \in ConsumeBatches(p) : WriteCall(p, b)
    \/ WriteCopy(p)
    \/ WriteRange(p)
    \/ WriteCheck(p)
    \/ \E k \in loc[p].todo : RewriteMake(p, k)
    \/ \E j \in 1 .. Len(loc[p].made) : RewriteSwap(p, j)
    \/ WriteDone(p)

NextConsume ==
    \/ \E p \in Writers : WriteSteps(p)
    \/ \E p \in Procs : EngLockStep(p)
    \/ \E n \in 1 .. Len(objs) : Delete(n)

SpecConsume == InitCompact /\ [][NextConsume]_vars

(***************************************************************************)
(* SpecKeys: convertKeysAndWriteMetadata on a sequence of batches.  The     *)
(* function runs under e.metaLock from its first to its last statement, so  *)
(* one call is one step.  A map from keys to ids is a function on Keys      *)
(* with NoID for the keys it does not hold.                                 *)
(***************************************************************************)

\* The largest value of HashSeriesField.
MaxHash == 2

\* idToKey: the ids of a map from keys to ids.
IdsOf(ids) == {ids[k] : k \in {x \in Keys : ids[x] # NoID}}

\* An idToKey that never gets the ids of the ids file.
PopulateNever(ids, idToKey) == idToKey

\* if len(idToKey) == 0 { for n, id := range ids { idToKey[id] = n } }
Populate(ids, idToKey) == IF idToKey = {} THEN IdsOf(ids) ELSE idToKey

RECURSIVE NextFreeID(_, _)
\* hashID = 0; for { hashID++; if _, ok := idToKey[hashID]; !ok { break } }
NextFreeID(idToKey, hashID) ==
    IF hashID + 1 \notin idToKey THEN hashID + 1 ELSE NextFreeID(idToKey, hashID + 1)

RECURSIVE AssignIDs(_, _, _, _, _)
\* The loop over pointsByKey, in the order of the map iteration: ids, the
\* set of ids in idToKey and the local map collisions after it.
AssignIDs(order, hash, ids, idToKey, collisions) ==
    IF order = <<>> THEN [ids |-> ids, collisions |-> collisions]
    ELSE LET k == Head(order)
         IN  IF ids[k] # NoID
             THEN AssignIDs(Tail(order), hash, ids, idToKey, collisions)
             ELSE LET known  == Populate(ids, idToKey)
                      collide == hash[k] \in known
                      hashID == IF collide THEN NextFreeID(known, 0) ELSE hash[k]
                  IN  AssignIDs(Tail(order), hash,
                                [ids EXCEPT ![k] = hashID],
                                known \cup {hashID},
                                IF collide THEN [collisions EXCEPT ![k] = hashID]
                                           ELSE collisions)

\* saveNewCollisions: e.collisions[k] = v for each entry of collisions.
SavedCollisions(old, new) == [k \in Keys |-> IF new[k] # NoID THEN new[k] ELSE old[k]]

UnchangedByKeys ==
    /\ UNCHANGED <<dfiles, currentFileID, dstatus, written, nwrites, compacted, cur, call, namers>>
    /\ UNCHANGED lockVars
    /\ UNCHANGED engVars

\* A call that returns nil: the ids file is replaced when a key was new,
\* and the new collisions are put into e.collisions.
ConvertKeys(order) ==
    /\ LET r == AssignIDs(order, meta.hash, meta.ids, {}, NoMeta.collisions)
       IN  meta' = [meta EXCEPT !.ids = r.ids,
                                !.collisions = SavedCollisions(meta.collisions, r.collisions),
                                !.err = FALSE]
    /\ UnchangedByKeys

\* A call that returns an error (readCompressedFile, json, or
\* replaceCompressedFile of ids): the ids file and e.collisions are as
\* before.
ConvertKeysFail ==
    /\ ~meta.err
    /\ meta' = [meta EXCEPT !.err = TRUE]
    /\ UnchangedByKeys

\* The batches: the non-empty sets of keys, in every order of iteration.
KeyOrders == UNION {Orders(S) : S \in SUBSET Keys \ {{}}}

InitKeys ==
    /\ meta \in {[NoMeta EXCEPT !.hash = h] : h \in [Keys -> 0 .. MaxHash]}
    /\ namers = NoNamers
    /\ call = NoCall
    /\ dfiles = <<>>
    /\ currentFileID = 0
    /\ dstatus = "ok"
    /\ written = [x \in DataIds \X DataTimes |-> 0]
    /\ nwrites = 0
    /\ compacted = NoCompact
    /\ cur = NoCursor
    /\ LockIdle
    /\ EngIdle

NextKeys ==
    \/ \E order \in KeyOrders : ConvertKeys(order)
    \/ ConvertKeysFail

SpecKeys == InitKeys /\ [][NextKeys]_vars

(***************************************************************************)
(* SpecNames: the goroutines that create files, each inside nextFileName.  *)
(* rewriteFile and Compact call e.nextFileName() with no lock of the engine *)
(* held (the writeLock ranges of two callers may differ, and the rewrite    *)
(* goroutines of one Write share one range); `e.currentFileID++` is a load  *)
(* and a store of the field, and the name is formatted from a further load. *)
(***************************************************************************)

\* The names handed out in a behaviour and the first values of
\* e.currentFileID (Open leaves it one above the largest file id found).
MaxNames == 4
MaxStartID == 1

NamersBusy == Cardinality({g \in NameCallers : namers.at[g] # "out"})

UnchangedByNamer ==
    /\ UNCHANGED <<dfiles, dstatus, written, nwrites, compacted, cur, call, meta>>
    /\ UNCHANGED lockVars
    /\ UNCHANGED engVars

\* e.currentFileID++: the load.
NameLoad(g) ==
    /\ namers.at[g] = "out"
    /\ Len(namers.handed) + NamersBusy < MaxNames
    /\ namers' = [namers EXCEPT !.at[g] = "loaded", !.reg[g] = currentFileID]
    /\ UNCHANGED currentFileID
    /\ UnchangedByNamer

\* e.currentFileID++: the store.
NameStore(g) ==
    /\ namers.at[g] = "loaded"
    /\ currentFileID' = namers.reg[g] + 1
    /\ namers' = [namers EXCEPT !.at[g] = "stored"]
    /\ UnchangedByNamer

\* fmt.Sprintf("%07d.%s", e.currentFileID, Format): the number of the name
\* is the field's value at the return.
NameReturn(g) ==
    /\ namers.at[g] = "stored"
    /\ namers' = [namers EXCEPT !.at[g] = "out",
                                !.handed = Append(@, [by |-> g, seq |-> currentFileID])]
    /\ UNCHANGED currentFileID
    /\ UnchangedByNamer

InitNames ==
    /\ currentFileID \in 0 .. MaxStartID
    /\ namers = NoNamers
    /\ meta = NoMeta
    /\ dfiles = <<>>
    /\ dstatus = "ok"
    /\ written = [x \in DataIds \X DataTimes |-> 0]
    /\ nwrites = 0
    /\ compacted = NoCompact
    /\ cur = NoCursor
    /\ call = NoCall
    /\ LockIdle
    /\ EngIdle

NextNames ==
    \/ \E g \in NameCallers : NameLoad(g)
    \/ \E g \in NameCallers : NameStore(g)
    \/ \E g \in NameCallers : NameReturn(g)

SpecNames == InitNames /\ [][NextNames]_vars

(***************************************************************************)
(* SpecCalls: one call of a function of the engine.  The initial state     *)
(* holds the arguments (call.op names the function, call.in its            *)
(* arguments), the step of the function leaves its result in call.out.     *)
(***************************************************************************)
\* A call with the arguments in, not made yet.
NewCall(op, in) == [op |-> op, in |-> in, done |-> FALSE, out |-> <<>>]

\* The step of a call: out is the result.
Returned(out) == call' = [call EXCEPT !.done = TRUE, !.out = out]

UnchangedByCall ==
    /\ UNCHANGED <<dfiles, currentFileID, dstatus, written, nwrites, compacted, cur, namers, meta>>
    /\ UNCHANGED lockVars
    /\ UNCHANGED engVars

\* The rangeLock objects with min <= max over the timestamps.
TimeRanges == {[min |-> x[1], max |-> x[2]] : x \in {y \in Times \X Times : y[1] <= y[2]}}

\* r.overlaps(l) for two rangeLock objects.
OverlapsCalls == {NewCall("overlaps", <<r, l>>) : r \in TimeRanges, l \in TimeRanges}

CallOverlaps ==
    /\ call.op = "overlaps"
    /\ ~call.done
    /\ Returned(overlaps(call.in[1], call.in[2]))
    /\ UnchangedByCall

\* The file sets of the calls: a file [t, t+1) with one point of series 1
\* for each timestamp of a set.
CallFileSets ==
    {[k \in 1 .. Cardinality(S) |-> QuietFile(k, SortedSeq(S)[k])] : S \in SUBSET Times}

\* filesAndLock(min, max) on a file set.
FilesAndLockCalls ==
    {NewCall("filesAndLock", <<files, r.min, r.max>>) :
        files \in CallFileSets, r \in TimeRanges}

\* The files filesAndLock returns and the range it locks.
FilesAndLockResult(files, min, max) ==
    [a         |-> filesAndLock(files, min, max),
     lockStart |-> LockStart(filesAndLock(files, min, max), min),
     lockEnd   |-> LockEnd(filesAndLock(files, min, max), max)]

CallFilesAndLock ==
    /\ call.op = "filesAndLock"
    /\ ~call.done
    /\ Returned(FilesAndLockResult(call.in[1], call.in[2], call.in[3]))
    /\ UnchangedByCall

\* filterDataBetweenTimes(valuesByID, minTime, maxTime) on a batch, with
\* minTime < maxTime.
FilterCalls ==
    {NewCall("filterDataBetweenTimes", <<Batch(b, 1), x[1], x[2]>>) :
        b \in BatchShapes,
        x \in {y \in (1 .. MaxDataTime + 1) \X (1 .. MaxDataTime + 1) : y[1] < y[2]}}

CallFilter ==
    /\ call.op = "filterDataBetweenTimes"
    /\ ~call.done
    /\ Returned(filterDataBetweenTimes(call.in[1], call.in[2], call.in[3]))
    /\ UnchangedByCall

\* The largest number of new values DecodeAndCombine is called with.
MaxNewValues == 3

\* DecodeAndCombine(newValues, block, buf, nextTime, hasFutureBlock) as
\* rewriteFile calls it: a block of the old file (payload 1), new values
\* (payload 2), and the first timestamp of the block that follows, which is
\* after the block's last one, or 0 when no block of the id follows.
CombineCalls ==
    {NewCall("DecodeAndCombine", <<ValuesOf(x[2], 2), Encode(1, ValuesOf(x[1], 1)), x[3], x[3] # 0>>) :
        x \in {y \in (SUBSET DataTimes) \X (SUBSET DataTimes) \X (0 .. MaxDataTime + 1) :
                  /\ y[1] # {} /\ Cardinality(y[1]) <= DefaultMaxPointsPerBlock
                  /\ y[2] # {} /\ Cardinality(y[2]) <= MaxNewValues
                  /\ y[3] # 0 => y[3] > SetMax(y[1])}}

CallCombine ==
    /\ call.op = "DecodeAndCombine"
    /\ ~call.done
    /\ Returned(DecodeAndCombine(call.in[1], call.in[2], call.in[3], call.in[4]))
    /\ UnchangedByCall

\* The largest timestamp of series 1 in the old file of a rewriteFile call;
\* series 2 has no point or one point, at OldOtherTime.
MaxOldTime == 4
OldOtherTime == 2

RECURSIVE Chunks(_, _)
\* The values vs of id in blocks of DefaultMaxPointsPerBlock values.
Chunks(id, vs) ==
    IF Len(vs) <= DefaultMaxPointsPerBlock
    THEN (IF vs = <<>> THEN <<>> ELSE <<Encode(id, vs)>>)
    ELSE <<Encode(id, SubSeq(vs, 1, DefaultMaxPointsPerBlock))>>
             \o Chunks(id, SubSeq(vs, DefaultMaxPointsPerBlock + 1, Len(vs)))

\* A well-formed file with the points ts1 of series 1 and ts2 of series 2
\* (payload 1): blocks grouped by ascending id, an index entry for each id
\* with the offset of its first block, and the trailer [minTime, maxTime).
FileOf(ts1, ts2) ==
    [blocks  |-> Chunks(1, ValuesOf(ts1, 1)) \o Chunks(2, ValuesOf(ts2, 1)),
     index   |-> (IF ts1 = {} THEN <<>> ELSE <<[id |-> 1, pos |-> fileHeaderSize]>>)
                    \o (IF ts2 = {} THEN <<>>
                        ELSE <<[id  |-> 2,
                                pos |-> BlockStart(Chunks(1, ValuesOf(ts1, 1)),
                                            Len(Chunks(1, ValuesOf(ts1, 1))) + 1)]>>),
     minTime |-> SetMin(ts1 \cup ts2),
     maxTime |-> SetMax(ts1 \cup ts2) + 1]

\* The old files of the rewriteFile calls: nil and the well-formed files.
CallOldFiles ==
    {NilFile} \cup
        {FileOf(x[1], x[2]) :
            x \in {y \in (SUBSET (1 .. MaxOldTime)) \X (SUBSET {OldOtherTime}) :
                      y[1] \cup y[2] # {}}}

\* rewriteFile(oldDF, valuesByID); order is the order in which the range
\* over valuesByID visits the ids.  The new values carry the payload 3.
RewriteCalls ==
    UNION {{NewCall("rewriteFile", <<x[1], Batch(x[2], 3), o>>) :
               o \in Orders(DOMAIN Batch(x[2], 3))} :
           x \in CallOldFiles \X BatchShapes}

CallRewriteFile ==
    /\ call.op = "rewriteFile"
    /\ ~call.done
    /\ Returned(rewriteFile(call.in[1], call.in[2], call.in[3]))
    /\ UnchangedByCall

\* The calls: each function with each of its arguments.
\* CompactionAge and MaxDataFileSize, scaled; the longest file set of a
\* call of filesToCompact.
CompactionAge == 1
MaxDataFileSize == 3
MaxCallFiles == 4

\* time.Since(df.modTime) > e.CompactionAge && df.size < MaxDataFileSize
Eligible(df) == df.age > CompactionAge /\ df.size < MaxDataFileSize

RECURSIVE filesToCompactLoop(_, _, _)
\* The loop of filesToCompact over e.files from index k on, a the files
\* appended so far: an eligible file is appended, a file that is not ends
\* the loop only when a is not empty.
filesToCompactLoop(files, k, a) ==
    IF k > Len(files) THEN a
    ELSE IF Eligible(files[k]) THEN filesToCompactLoop(files, k + 1, Append(a, files[k]))
    ELSE IF Len(a) > 0 THEN a
    ELSE filesToCompactLoop(files, k + 1, a)

\* A selection that never stops: every eligible file of the file set.
filesToCompactAll(files) == SelectSeq(files, Eligible)

filesToCompact(files) == filesToCompactLoop(files, 1, <<>>)

\* A file of e.files as filesToCompact sees it: its place in the sorted
\* file set, the time since its modTime and its size.
AgedFiles(n) ==
    [1 .. n -> [age : {CompactionAge, CompactionAge + 1},
                size : {MaxDataFileSize - 1, MaxDataFileSize}]]

CompactCalls ==
    UNION {{NewCall("filesToCompact",
                    <<[k \in 1 .. n |-> [name |-> k, age |-> fs[k].age, size |-> fs[k].size]]>>) :
                fs \in AgedFiles(n)} : n \in 0 .. MaxCallFiles}

CallFilesToCompact ==
    /\ call.op = "filesToCompact"
    /\ ~call.done
    /\ Returned(filesToCompact(call.in[1]))
    /\ UnchangedByCall

CallInput ==
    \/ call \in OverlapsCalls
    \/ call \in FilesAndLockCalls
    \/ call \in FilterCalls
    \/ call \in CombineCalls
    \/ call \in RewriteCalls
    \/ call \in CompactCalls

InitCalls ==
    /\ CallInput
    /\ namers = NoNamers
    /\ meta = NoMeta
    /\ dfiles = <<>>
    /\ currentFileID = 0
    /\ dstatus = "ok"
    /\ written = [x \in DataIds \X DataTimes |-> 0]
    /\ nwrites = 0
    /\ compacted = NoCompact
    /\ cur = NoCursor
    /\ LockIdle
    /\ EngIdle

NextCalls ==
    \/ CallOverlaps
    \/ CallFilesAndLock
    \/ CallFilter
    \/ CallCombine
    \/ CallRewriteFile
    \/ CallFilesToCompact

SpecCalls == InitCalls /\ [][NextCalls]_vars

(***************************************************************************)
(* SpecLock: goroutines that lock and unlock ranges of their choice.       *)
(***************************************************************************)
InitLock == LockIdle /\ DataIdle /\ EngIdle

UserLock(p) == \E r \in RangeSet : LockCall(p, r[1], r[2])

NextLock ==
    /\ \E p \in Procs :
           \/ UserLock(p)
           \/ LockStep(p)
           \/ UnlockRange(p)
    /\ UNCHANGED dataVars
    /\ UNCHANGED engVars

SpecLock == InitLock /\ [][NextLock]_vars

(***************************************************************************)
(* SpecLockFair: the same goroutines under a fair scheduler.  A goroutine  *)
(* that can run does run (weak fairness of its steps inside LockRange), a  *)
(* holder does call UnlockRange, and sync.Mutex hands w.mu to a goroutine  *)
(* that keeps waiting for it (strong fairness of w.mu.Lock()).  Nothing    *)
(* obliges a goroutine to call LockRange.                                  *)
(***************************************************************************)
LockRun(p) ==
    /\ \/ currentlyLockedRanges(p)
       \/ LockSkip(p)
       \/ LockWaitOverlap(p)
       \/ LockAdd(p)
       \/ LockReturn(p)
    /\ UNCHANGED dataVars
    /\ UNCHANGED engVars

LockMu(p) == LockAcquireMu(p) /\ UNCHANGED dataVars /\ UNCHANGED engVars

LockRelease(p) == UnlockRange(p) /\ UNCHANGED dataVars /\ UNCHANGED engVars

FairLock ==
    \A p \in Procs :
        /\ WF_vars(LockRun(p))
        /\ SF_vars(LockMu(p))
        /\ WF_vars(LockRelease(p))

\* The ranges the callers of the fair specification ask for: one or two
\* adjacent timestamps.
FairMaxTime == 2
FairRanges ==
    {r \in (1 .. FairMaxTime) \X (1 .. FairMaxTime) :
        r[1] <= r[2] /\ r[2] <= r[1] + 1}

FairUserLock(p) == \E r \in FairRanges : LockCall(p, r[1], r[2])

NextLockFair ==
    /\ \E p \in Procs :
           \/ FairUserLock(p)
           \/ LockStep(p)
           \/ UnlockRange(p)
    /\ UNCHANGED dataVars
    /\ UNCHANGED engVars

SpecLockFair == InitLock /\ [][NextLockFair]_vars /\ FairLock

Intersect(a, b) == a.min <= b.max /\ b.min <= a.max

\* C1: any two ranges held at the same time do not intersect (as inclusive
\* intervals), containment of one in the other included.
C1_MutualExclusion ==
    \A p, q \in Procs :
        (p # q /\ Held(p) /\ Held(q)) => ~Intersect(lk[p], lk[q])

\* An acquirer inside its loop, waiting for the holder of a range.
BlockedOnHolder(q) ==
    /\ lk[q].ph = "wait"
    /\ lk[q].i <= Len(lk[q].snap)
    /\ overlaps(lk[q].snap[lk[q].i], lk[q])
    /\ lk[q].snap[lk[q].i].rid \in rlocked

FreeOfHeld(p) ==
    \A k \in 1 .. Len(ranges) : ~Intersect(ranges[k], lk[p])

\* C10: a caller of LockRange whose range intersects no range in the list
\* is never kept waiting behind an acquirer that is itself blocked on the
\* holder of a conflicting range (it needs no UnlockRange to return).
C10_DisjointProceeds ==
    \A p \in Procs :
        (lk[p].ph = "mu" /\ FreeOfHeld(p)) =>
            ~(\E q \in Procs : q # p /\ wmu = q /\ BlockedOnHolder(q))

\* A goroutine has called LockRange and LockRange has not returned.
InLockRange(p) == lk[p].ph \in {"mu", "snap", "wait", "ret"}

\* C11: under the fair scheduler, every call of LockRange returns.
C11_LockRangeReturns ==
    \A p \in Procs : InLockRange(p) ~> Held(p)

\* An acquirer is blocked on a holder while another caller waits for w.mu.
C11_Witness ==
    \E q, p \in Procs : q # p /\ BlockedOnHolder(q) /\ lk[p].ph = "mu"

\* The goroutine holds the range (MinInt64, MaxInt64).
HoldsFullRange(p) ==
    Held(p) /\ lk[p].min = MinInt64 /\ lk[p].max = MaxInt64

\* C12: while a goroutine holds (MinInt64, MaxInt64), no LockRange call of
\* another goroutine returns, whatever its range.
C12_FullRangeBlocks ==
    [][\A p, q \in Procs :
          (p # q /\ HoldsFullRange(p) /\ ~Held(q)) => ~Held(q)']_vars

\* The full range is held and another caller waits for its holder.
C12_Witness ==
    \E p, q \in Procs :
        /\ p # q
        /\ HoldsFullRange(p)
        /\ BlockedOnHolder(q)
        /\ lk[q].snap[lk[q].i].rid = p

(***************************************************************************)
(* Properties of the functions.                                            *)
(***************************************************************************)
\* The call of op has returned.
Called(op) == call.op = op /\ call.done

\* C21: overlaps is the intersection test of two inclusive intervals,
\* r.overlaps(l) is true iff r.min <= l.max and l.min <= r.max, and it gives
\* the same result with receiver and argument exchanged.
C21_OverlapsIntersect ==
    Called("overlaps") =>
        /\ call.out = Intersect(call.in[1], call.in[2])
        /\ call.out = overlaps(call.in[2], call.in[1])

\* C22: the range filesAndLock locks contains the batch's [min, max] and
\* the [minTime, maxTime] of every file it returns, also when the batch
\* starts before the first of them.
C22_LockCoversWork ==
    Called("filesAndLock") =>
        /\ call.out.lockStart <= call.in[2]
        /\ call.out.lockEnd >= call.in[3]
        /\ \A k \in 1 .. Len(call.out.a) :
               /\ call.out.lockStart <= call.out.a[k].min
               /\ call.out.lockEnd >= call.out.a[k].max

\* The files of the file set whose [minTime, maxTime] meets [min, max].
FilesMeeting(files, min, max) ==
    {files[k].name : k \in {i \in 1 .. Len(files) :
                               min <= files[i].maxTime /\ files[i].minTime <= max}}

\* C23: filesAndLock returns exactly the files whose [minTime, maxTime]
\* meets [min, max]; a file entirely after max or before min is not one.
C23_TouchedFiles ==
    Called("filesAndLock") =>
        {call.out.a[k].ref : k \in 1 .. Len(call.out.a)}
            = FilesMeeting(call.in[1], call.in[2], call.in[3])

\* The values of id in the map m, none when m has no such key.
ValuesIn(m, id) == IF id \in DOMAIN m THEN m[id] ELSE <<>>

\* C24: filterDataBetweenTimes returns the values with minTime <= t <
\* maxTime and leaves the others in the passed-in map, for every id; an id
\* with no value in the range gives nothing to the result.
C24_FilterPartitions ==
    Called("filterDataBetweenTimes") =>
        \A id \in DOMAIN call.in[1] :
            LET taken == ValuesIn(call.out.filtered, id)
                left  == ValuesIn(call.out.rest, id)
            IN  /\ \A i \in 1 .. Len(taken) :
                       taken[i].t >= call.in[2] /\ taken[i].t < call.in[3]
                /\ \A i \in 1 .. Len(left) :
                       left[i].t < call.in[2] \/ left[i].t >= call.in[3]
                /\ TimesOf(taken) \cup TimesOf(left) = TimesOf(call.in[1][id])
                /\ Len(taken) + Len(left) = Len(call.in[1][id])

\* C25: the block DecodeAndCombine emits and the values it returns hold
\* the timestamps of the old block and of newValues and no other, a
\* timestamp of both with the value of newValues, and the block holds at
\* most DefaultMaxPointsPerBlock values: nothing pending is discarded.
C25_CombineConserves ==
    (Called("DecodeAndCombine") /\ ~call.out.panic) =>
        LET all == call.out.vals \o call.out.rest
        IN  /\ TimesOf(all) = TimesOf(call.in[2].vals) \cup TimesOf(call.in[1])
            /\ \A i \in 1 .. Len(all) :
                   all[i].t \in TimesOf(call.in[1]) => all[i].v = 2
            /\ Len(call.out.vals) <= DefaultMaxPointsPerBlock

\* rewriteFile has returned a file.
Rewritten == Called("rewriteFile") /\ ~call.out.panic

\* The blocks of the file that carry the id, in their order.
BlocksOfID(f, id) == SelectSeq(f.blocks, LAMBDA b : b.id = id)

RECURSIVE ValuesOfBlocks(_)
\* The values of a sequence of blocks, one after the other.
ValuesOfBlocks(bs) ==
    IF bs = <<>> THEN <<>> ELSE Head(bs).vals \o ValuesOfBlocks(Tail(bs))

\* The ids of the index of the file.
IndexIDs(f) == {f.index[i].id : i \in 1 .. Len(f.index)}

StrictlyAscending(vs) == \A i, j \in 1 .. Len(vs) : i < j => vs[i].t < vs[j].t

\* The blocks of the file that carry the id and hold encoded values.
ValueBlocksOfID(f, id) == SelectSeq(f.blocks, LAMBDA b : b.id = id /\ ~b.junk)

\* C26: in the file a rewrite of a well-formed old file produces, the
\* timestamps of every id are strictly ascending through its blocks of
\* values: inside each block and from one block to the next.
C26_PerIdTimeOrder ==
    Rewritten =>
        \A id \in DOMAIN call.in[2] \cup IndexIDs(call.in[1]) :
            StrictlyAscending(ValuesOfBlocks(ValueBlocksOfID(call.out.file, id)))

\* A rewrite merged new values of series 1, the first of them earlier
\* than the last value of the old file's first block, into an old file
\* with two or more blocks of the series, and wrote three or more blocks.
C26_Witness ==
    /\ Rewritten
    /\ 1 \in DOMAIN call.in[2]
    /\ Len(BlocksOfID(call.in[1], 1)) >= 2
    /\ call.in[2][1][1].t < call.in[1].blocks[1].vals[Len(call.in[1].blocks[1].vals)].t
    /\ Len(BlocksOfID(call.out.file, 1)) >= 3

\* C27: the rewritten file's minTime is the smallest of the old file's
\* minTime and the new timestamps, its maxTime the largest of the old
\* file's maxTime and the largest new timestamp plus one.
C27_TrailerTimes ==
    Rewritten =>
        /\ call.out.file.minTime = SetMin({call.in[1].minTime, BatchMin(call.in[2])})
        /\ call.out.file.maxTime = SetMax({call.in[1].maxTime, BatchMax(call.in[2]) + 1})

\* No two keys of the ids map have the same id.
IdsInjective ==
    \A k1, k2 \in Keys :
        k1 # k2 /\ meta.ids[k1] # NoID => meta.ids[k1] # meta.ids[k2]

\* A key that has an id keeps it.
IdsStable == \A k \in Keys : meta.ids[k] # NoID => meta.ids'[k] = meta.ids[k]

\* A key that gets an id gets its hash, or, when the hash is the id of
\* another key, a positive integer with every smaller positive integer
\* assigned, and is then in e.collisions with that id.
NewIdsAssigned ==
    \A k \in Keys :
        meta.ids[k] = NoID /\ meta.ids'[k] # NoID =>
            \/ /\ meta.ids'[k] = meta.hash[k]
               /\ meta.collisions'[k] = NoID
            \/ /\ \E k2 \in Keys \ {k} : meta.ids'[k2] = meta.hash[k]
               /\ meta.ids'[k] # meta.hash[k]
               /\ meta.ids'[k] >= 1
               /\ \A n \in 1 .. meta.ids'[k] - 1 : n \in IdsOf(meta.ids')
               /\ meta.collisions'[k] = meta.ids'[k]

\* C31: the assignment of ids to keys is injective and stable: no two keys
\* of the ids map have the same id, a key keeps its id in every later
\* batch, and a new key whose hash is taken by another key gets the
\* smallest positive integer not assigned and is recorded in collisions.
C31_IdsInjectiveStable == []IdsInjective /\ [][IdsStable /\ NewIdsAssigned]_vars

\* Two keys with the same hash have ids, one of them in e.collisions, and
\* a third key whose hash is the id given to the colliding key has an id.
C31_Witness ==
    /\ \A k \in Keys : meta.ids[k] # NoID
    /\ \E k1, k2, k3 \in Keys :
           /\ k1 # k2 /\ meta.hash[k1] = meta.hash[k2]
           /\ meta.ids[k1] = meta.hash[k1]
           /\ meta.collisions[k2] = meta.ids[k2]
           /\ meta.hash[k3] = meta.ids[k2] /\ k3 # k2
           /\ meta.collisions[k3] = meta.ids[k3]

\* The goroutines that take ranges: Write, Compact and Close.
Lockers == {Writer, Compactor, Closer}

\* The entries of writeLock.ranges that p's calls of LockRange appended.
RangesOf(p) == SelectSeq(ranges, LAMBDA r : r.rid = p)

\* An operation that has returned holds no range and no rangeLock.mu.
ReturnedHoldsNone ==
    \A p \in Lockers :
        pc[p] = "idle" => RangesOf(p) = <<>> /\ p \notin rlocked /\ lk[p] = LkIdle

\* A step takes at most one entry out of writeLock.ranges: the entry of a
\* goroutine that held it and holds nothing after the step; the entries of
\* the other goroutines stay.
ReleasedOnce ==
    Len(ranges') < Len(ranges) =>
        \E p \in Lockers :
            /\ Held(p)
            /\ Len(RangesOf(p)) = 1
            /\ lk'[p] = LkIdle
            /\ ranges' = SelectSeq(ranges, LAMBDA r : r.rid # p)
            /\ rlocked' = rlocked \ {p}

\* C32: every range taken by Write, Compact or Close is released exactly
\* once before the operation returns: an operation that has returned holds
\* no range, so with all operations returned no range is held.
C32_RangesReleased == []ReturnedHoldsNone /\ [][ReleasedOnce]_vars

\* Write has returned an error, Compact and Close have returned, files
\* were replaced, and no range is held.
C32_Witness ==
    /\ \A p \in Lockers : pc[p] = "idle"
    /\ loc[Writer].ret # 0
    /\ closed
    /\ nswaps > 0
    /\ ranges = <<>>

\* The files that an operation of p in flight reads: for a Write whose
\* file copy was confirmed under its range, the old files of the rewrites
\* not yet swapped; for a Compact past its check, its files until the swap.
InFlightInputs(p) ==
    IF pc[p] = "wrewrite"
    THEN ({loc[p].tasks[k].old : k \in loc[p].todo}
          \cup {loc[p].made[j].old : j \in {i \in 1 .. Len(loc[p].made) : ~loc[p].made[i].sw}})
         \ {0}
    ELSE IF pc[p] \in {"cmerge", "cswap"}
    THEN {loc[p].files[k] : k \in 1 .. Len(loc[p].files)}
    ELSE {}

\* C33: no file is the input of two file-producing operations in flight,
\* and from the check of the file copy under the range lock to the swap
\* every input of an operation is still in the file set.
C33_NoDoubleConsume ==
    /\ \A p, q \in Procs : p # q => InFlightInputs(p) \cap InFlightInputs(q) = {}
    /\ \A p \in Procs : InFlightInputs(p) \subseteq NameSet(dfiles)

\* filesAndLock never starts over.
NoWriteRetry == [][~(pc[Writer] = "wlock" /\ pc'[Writer] = "wcopy")]_vars

\* Compact never starts over.
NoCompactRetry ==
    [][~(pc[Compactor] = "clock" /\ pc'[Compactor] = "idle" /\ Held(Compactor))]_vars

\* C28: every file creation gets a sequence number strictly greater than
\* every number handed out before; no two creations get the same number.
C28_UniqueNames ==
    \A i, j \in 1 .. Len(namers.handed) :
        i < j => namers.handed[i].seq < namers.handed[j].seq

RECURSIVE EligiblePrefix(_)
\* The longest initial segment of the files in which every file is older
\* than CompactionAge and smaller than MaxDataFileSize.
EligiblePrefix(files) ==
    IF files = <<>> \/ ~Eligible(Head(files)) THEN <<>>
    ELSE <<Head(files)>> \o EligiblePrefix(Tail(files))

\* The statement of C29 as first made: filesToCompact returns the longest
\* initial segment of eligible files, empty when the first file is not
\* eligible.
C29_CompactPrefix ==
    Called("filesToCompact") => call.out = EligiblePrefix(call.in[1])

\* C29: filesToCompact returns the first run of eligible files of the
\* sorted file set: it passes over the files before the first eligible
\* one, takes that file and the eligible files that follow it without a
\* gap, and stops at the first file after them that is not eligible; the
\* result is empty only when no file is eligible.
C29_CompactRun ==
    Called("filesToCompact") =>
        LET files == call.in[1]
            a     == call.out
        IN  \/ a = <<>> /\ \A k \in 1 .. Len(files) : ~Eligible(files[k])
            \/ \E i \in 1 .. Len(files) :
                   /\ \A k \in 1 .. i - 1 : ~Eligible(files[k])
                   /\ Eligible(files[i])
                   /\ a = EligiblePrefix(SubSeq(files, i, Len(files)))

\* filesToCompact returned the second file alone of a file set whose
\* first and third files are not eligible and whose fourth file is.
C29_Witness ==
    /\ Called("filesToCompact")
    /\ Len(call.in[1]) = 4
    /\ ~Eligible(call.in[1][1])
    /\ Eligible(call.in[1][2])
    /\ ~Eligible(call.in[1][3])
    /\ Eligible(call.in[1][4])
    /\ call.out = <<call.in[1][2]>>

\* C30: for an id of the old file that is not in the new values, the new
\* file holds the old file's blocks of that id and nothing more.
C30_UntouchedCopied ==
    Rewritten =>
        \A id \in IndexIDs(call.in[1]) \ DOMAIN call.in[2] :
            BlocksOfID(call.out.file, id) = BlocksOfID(call.in[1], id)

(***************************************************************************)
(* Properties of Compact on a quiet engine.                                *)
(***************************************************************************)
\* The step of Compact that swaps the file set.
CompactSwapped == pc[Compactor] = "cswap" /\ pc'[Compactor] = "cdone"

\* The files are replaced by one file from the first one's minTime to the
\* last one's maxTime, and the Delete of each is pending.
Coalesced ==
    /\ Len(dfiles') = 1
    /\ dfiles'[1].name \notin NameSet(dfiles)
    /\ dfiles'[1].minTime = dfiles[1].minTime
    /\ dfiles'[1].maxTime = dfiles[Len(dfiles)].maxTime
    /\ \A n \in NameSet(dfiles) : objs'[n].del > 0

\* The Delete of the file is pending and nobody holds its mu.
DeletePending(n) == n <= Len(objs) /\ objs[n].del > 0 /\ objs[n].rl = {}

\* The file is deleted, or held again by a Begin that had copied it.
DeletedOrHeld(n) == n <= Len(objs) /\ (~objs[n].f \/ objs[n].rl # {})

WriteReturnsError ==
    /\ pc[Writer] = "wrewrite"
    /\ pc'[Writer] = "idle"
    /\ loc[Writer].errors # <<>>

\* The new file of every rewrite of the call that did not fail is in the
\* file set.
SiblingsApplied ==
    \A j \in 1 .. Len(loc[Writer].made) : loc[Writer].made[j].new \in NameSet(dfiles')

\* The old file of every failed rewrite of the call is in the file set,
\* open, and no Delete of it is pending.
FailedUntouched ==
    \A i \in 1 .. Len(loc[Writer].errors) :
        LET old == loc[Writer].tasks[loc[Writer].errors[i]].old
        IN  old # 0 => /\ old \in NameSet(dfiles')
                       /\ objs'[old].f
                       /\ objs'[old].del = 0

\* C19: a Write of which one or more rewrites failed returns the error
\* recorded first; the swaps of the rewrites that succeeded stay, and the
\* old file of a failed rewrite stays in the file set, not to be deleted.
C19_WriteErrorOutcome ==
    [][WriteReturnsError =>
          /\ loc'[Writer].ret = Head(loc[Writer].errors)
          /\ SiblingsApplied
          /\ FailedUntouched]_vars

\* The second Write returned an error and a sibling rewrite of it was
\* swapped in.
C19_Witness ==
    /\ pc[Writer] = "idle"
    /\ loc[Writer].ret # 0
    /\ nwrites = 2
    /\ nswaps = 2

(***************************************************************************)
(* Properties of the cursor.                                               *)
(***************************************************************************)
\* The values [t, v] of the series id in the files.
AllValues(files, id) ==
    UNION {UNION {{files[i].blocks[k].vals[n] : n \in 1 .. Len(files[i].blocks[k].vals)} :
                     k \in {k \in 1 .. Len(files[i].blocks) : files[i].blocks[k].id = id}} :
              i \in 1 .. Len(files)}

RECURSIVE AscendingValues(_)
AscendingValues(S) ==
    IF S = {} THEN <<>>
    ELSE LET x == CHOOSE x \in S : \A y \in S : x.t <= y.t
         IN  <<x>> \o AscendingValues(S \ {x})

\* What SeekTo(seek) is to return: the value with the smallest time >= seek.
SeekExpected(files, id, seek) ==
    LET S == {x \in AllValues(files, id) : x.t >= seek}
    IN  IF S = {} THEN [kind |-> "eof", t |-> 0, v |-> 0]
        ELSE [kind |-> "val", t |-> AscendingValues(S)[1].t, v |-> AscendingValues(S)[1].v]

\* C13: a SeekTo(t) that returns yields the value of the id with the
\* smallest time >= t over all files, or EOF when there is none.
C13_SeekToResult ==
    (cur.op = "seek" /\ cur.res.kind # "hang") =>
        cur.res = SeekExpected(dfiles, cur.c.id, cur.seek)

\* C14: every call of SeekTo returns.
C14_SeekToTerminates == cur.res.kind # "hang"

\* The values Next is to return after a SeekTo that returned the time t0.
NextExpected(files, id, t0) ==
    AscendingValues({x \in AllValues(files, id) : x.t > t0})

IsPrefix(a, b) == Len(a) <= Len(b) /\ a = SubSeq(b, 1, Len(a))

Places(id, t) ==
    {p \in UNION {UNION {{<<f, k, n>> : n \in 1 .. Len(dfiles[f].blocks[k].vals)} :
                         k \in 1 .. Len(dfiles[f].blocks)} :
                  f \in 1 .. Len(dfiles)} :
        /\ ~dfiles[p[1]].blocks[p[2]].junk
        /\ dfiles[p[1]].blocks[p[2]].id = id
        /\ dfiles[p[1]].blocks[p[2]].vals[p[3]].t = t}

ValueAt(p) == dfiles[p[1]].blocks[p[2]].vals[p[3]].v

\* Only Writes that returned so far, no compaction.
OnlyWrites == dstatus = "ok" /\ ~compacted.done

\* C2: after Writes that returned without error (and no compaction), every
\* (id, timestamp) passed to a Write is in a block of a file of the file set.
C2_NoLostWrites ==
    OnlyWrites =>
        \A x \in DataIds \X DataTimes :
            written[x] # 0 => Places(x[1], x[2]) # {}

\* C3: after Writes that returned, the file set never holds two values for
\* an (id, t), and the value it holds is the one of the last Write that
\* stored (id, t).
C3_LastWriterWins ==
    OnlyWrites =>
        \A x \in DataIds \X DataTimes :
            /\ Cardinality(Places(x[1], x[2])) <= 1
            /\ \A p \in Places(x[1], x[2]) : ValueAt(p) = written[x]

\* Ascending times within each block of f, and from block to block of an id.
AscendingPerID(f) ==
    \A k, l \in 1 .. Len(f.blocks) :
        \A n \in 1 .. Len(f.blocks[k].vals), o \in 1 .. Len(f.blocks[l].vals) :
            (f.blocks[k].id = f.blocks[l].id /\ (k < l \/ (k = l /\ n < o)))
                => f.blocks[k].vals[n].t < f.blocks[l].vals[o].t

\* C4: when a Compact completes, the output file holds, for every id, the
\* (timestamp, value) pairs of the consumed files, in ascending time order:
\* no id and no value is dropped.
C4_CompactPreserves ==
    compacted.done =>
        /\ FileTriples(compacted.out) = compacted.in
        /\ AscendingPerID(compacted.out)

\* C7: with no Write and no Compact in flight, the file set is sorted by
\* minTime and no two files have intersecting time ranges (maxTime is one
\* past the last timestamp of a file).
C7_FileSetOrdered ==
    dstatus = "ok" =>
        \A i, j \in 1 .. Len(dfiles) :
            i < j => /\ dfiles[i].minTime <= dfiles[j].minTime
                     /\ dfiles[i].maxTime <= dfiles[j].minTime

\* The points (id, t) of the Write that returned last.
LastBatch == {x \in DataIds \X DataTimes : nwrites > 0 /\ written[x] = nwrites}

\* A Write returns whose batch touches the one file of the file set, a
\* file below RotateFileSize.
WriteIntoSmallFile ==
    /\ dstatus' = "ok"
    /\ nwrites' = nwrites + 1
    /\ Len(dfiles) = 1
    /\ FileSize(dfiles[1]) < RotateFileSize
    /\ \E x \in LastBatch' : x[2] < dfiles[1].maxTime

\* C16: a Write that touches only one file, a file below RotateFileSize,
\* merges its whole batch into that file: the file set has one file after
\* it, also when the batch has a timestamp below the file's minTime.
C16_MergeIntoSmallFile ==
    [][WriteIntoSmallFile => Len(dfiles') = 1]_vars

\* Every encoded block of the file holds at most DefaultMaxPointsPerBlock
\* values.
BlocksBounded(f) ==
    \A k \in 1 .. Len(f.blocks) :
        ~f.blocks[k].junk => Len(f.blocks[k].vals) <= DefaultMaxPointsPerBlock

\* C18: every block written by a rewrite or by a compaction holds at most
\* MaxPointsPerBlock values (a longer run of values of one id is split into
\* blocks of that size).
C18_BlockSizeBound ==
    dstatus = "ok" => \A i \in 1 .. Len(dfiles) : BlocksBounded(dfiles[i])

\* The index of the file lists ids in strictly ascending order, the ids
\* of its blocks and no other, each with the offset of the first block of
\* the id.
IndexWellFormed(f) ==
    /\ \A i, j \in 1 .. Len(f.index) : i < j => f.index[i].id < f.index[j].id
    /\ {f.index[i].id : i \in 1 .. Len(f.index)} = {f.blocks[k].id : k \in 1 .. Len(f.blocks)}
    /\ \A i \in 1 .. Len(f.index) :
           LET k == BlockIdx(f, f.index[i].pos)
           IN  /\ k # 0
               /\ f.blocks[k].id = f.index[i].id
               /\ \A h \in 1 .. (k - 1) : f.blocks[h].id # f.index[i].id

HasSnapshot == pc[Reader] \in {"brlock", "tx"}
Snapshot == {loc[Reader].files[k] : k \in 1 .. Len(loc[Reader].files)}

CurrentAt(at) ==
    {n \in 1 .. Len(objs) :
        /\ objs[n].inAt # 0
        /\ objs[n].inAt <= at
        /\ (objs[n].outAt = 0 \/ at < objs[n].outAt)}

\* C6: the copy Begin takes is the file set as it was between two swaps;
\* for every rewrite that replaced old by new it holds exactly one of the
\* two (as long as one of them was in the file set), never both.
C6_SwapAtomic ==
    HasSnapshot =>
        /\ Snapshot = CurrentAt(loc[Reader].era)
        /\ \A rw \in rewrites :
              /\ ~(rw.old \in Snapshot /\ rw.new \in Snapshot)
              /\ (rw.old \in CurrentAt(loc[Reader].era) \/ rw.new \in CurrentAt(loc[Reader].era))
                     => (rw.old \in Snapshot \/ rw.new \in Snapshot)

\* A transaction holds the old file of a rewrite that has swapped since.
C6_Witness ==
    pc[Reader] = "tx" /\ \E rw \in rewrites : rw.old \in Snapshot

\* C8: when Close has closed the files and reset the file set (and still
\* holds the whole range), no Write and no Compact holds a range.
C8_CloseWaits ==
    pc[Closer] = "kunlock" => ~Held(Writer) /\ ~Held(Compactor)

\* C9: no Begin and no Write invoked after Close returned succeeds.
C9_RejectedAfterClose == ~lateOK

=============================================================================
